---- MODULE Spec2Model ----
(***************************************************************************)
(* A model of the Clara MCP server (clara-mcp-server): the tool router of  *)
(* main.rs, the tool groups under tools/, and the state they share: the    *)
(* stored Claude Code working directory and the per-user file storage.     *)
(*                                                                         *)
(* Strings are sequences of pieces.  A user supplied string (a filename, a *)
(* user id) is a sequence of characters; a text built with format! is the  *)
(* concatenation of its literal pieces and its arguments.                  *)
(***************************************************************************)
EXTENDS Integers, Sequences, FiniteSets, TLC

VARIABLES
    workdir,    \* ClaudeCodeTools.workdir: None or the stored path
    fs,         \* the tree under LocalFilesTools.base_dir: path -> entry
    cfg,        \* the environment read at construction
    req,        \* the request envelope of the last dispatch
    handler,    \* the tool method the last dispatch invoked, or NoHandler
    hres,       \* the Result the invoked tool group method returned
    resp,       \* the response envelope of the last dispatch
    calls,      \* the outbound calls of the last dispatch, in order
    env,        \* what the environment answered during the last dispatch
    serverUp,   \* the serve loop is still running
    sanIn,      \* sanitize_filename: the input string
    sanOut,     \* sanitize_filename: the returned string
    sanDone,    \* sanitize_filename: whether the call has returned
    cell,       \* concurrent requests: the two words of the guarded Option<String>
    lock,       \* concurrent requests: the RwLock, its writer and its readers
    task,       \* concurrent requests: each request's method, position and reading
    stored,     \* concurrent requests: the initial value and the paths that passed
                \* Path::exists
    registry,   \* ClaraServer.tool_router: the registered names, in order
    listed,     \* the names the last "list tools" request returned
    clients,    \* the reqwest::Client instances alive, by the owner of each
    awaiting,   \* a tool method has been entered and has not returned yet
    par,        \* file and workdir requests in flight: each one's operation,
                \* position and Result
    start       \* the tree and working directory the requests in flight began with

srvVars == <<workdir, fs, cfg, req, handler, hres, resp, calls, env, serverUp,
             registry, listed, clients, awaiting>>

sanVars == <<sanIn, sanOut, sanDone>>

concVars == <<cell, lock, task, stored, par, start>>

vars == <<workdir, fs, cfg, req, handler, hres, resp, calls, env, serverUp,
          sanIn, sanOut, sanDone, cell, lock, task, stored,
          registry, listed, clients, awaiting, par, start>>

(***************************************************************************)
(* Characters.  One representative per class that sanitize_filename and    *)
(* char::is_alphanumeric tell apart.                                       *)
(***************************************************************************)
AsciiAlnum == {"a", "b", "f", "Z", "7"}
\* U+00E9 (a Latin letter with acute) and U+0663 (an Arabic-Indic digit):
\* alphanumeric for char::is_alphanumeric, outside ASCII.
UnicodeAlnum == {"U+00E9", "U+0663"}
Punct == {".", "-", "_"}
Others == {"/", " "}
Chars == AsciiAlnum \cup UnicodeAlnum \cup Punct \cup Others

\* Longest input string of the sanitize_filename specification.
MaxLen == 3

RECURSIVE StringsUpTo(_)
StringsUpTo(n) ==
    IF n = 0 THEN {<<>>}
    ELSE LET shorter == StringsUpTo(n - 1)
         IN  shorter \cup {Append(s, c) : s \in {t \in shorter : Len(t) = n - 1}, c \in Chars}

\* char::is_alphanumeric: Unicode Alphabetic or Numeric.
is_alphanumeric(c) == c \in AsciiAlnum \cup UnicodeAlnum

\* The closure of the map in sanitize_filename.
sanitize_char(c) ==
    IF is_alphanumeric(c) \/ c = "." \/ c = "-" \/ c = "_" THEN c ELSE "_"

\* str::trim_start_matches(ch): drops every leading occurrence of ch.
RECURSIVE trim_start_matches(_, _)
trim_start_matches(s, ch) ==
    IF s # <<>> /\ Head(s) = ch THEN trim_start_matches(Tail(s), ch) ELSE s

\* sanitize_filename without the trim_start_matches('.') step.
sanitize_filename_untrimmed(name) ==
    [i \in 1..Len(name) |-> sanitize_char(name[i])]

sanitize_filename(name) ==
    trim_start_matches([i \in 1..Len(name) |-> sanitize_char(name[i])], ".")

(***************************************************************************)
(* Values.  Every argument value is a string (a sequence of pieces).       *)
(***************************************************************************)
\* Option::None of an optional parameter or field.
None == <<"#None">>
\* A JSON value of another type than the field's (a number for a String).
WrongType == <<"#WrongType">>

\* format!: the concatenation of the pieces.
RECURSIVE Concat(_)
Concat(parts) == IF parts = <<>> THEN <<>> ELSE Head(parts) \o Concat(Tail(parts))

\* Whether the text holds the piece / the pieces one after the other.
Contains(text, piece) == \E i \in 1..Len(text) : text[i] = piece

ContainsSeq(text, pieces) ==
    \E i \in 0..(Len(text) - Len(pieces)) :
        \A j \in 1..Len(pieces) : text[i + j] = pieces[j]

\* usize and status codes as they are displayed.
Display(n) == <<"0", "1", "2", "3", "4", "5", "6", "7", "8", "9">>[n + 1]

Restrict(f, S) == [x \in S |-> f[x]]

(***************************************************************************)
(* Parameter types of main.rs: a field of type String (or i32) is          *)
(* required, a field of type Option<_> is optional; serde ignores fields   *)
(* the struct does not name.                                               *)
(***************************************************************************)
\* The tool methods of the #[tool_router] impl, in declaration order.
tool_router ==
    << "claude_code", "claude_code_get_workdir", "claude_code_set_workdir",
      "claude_code_status", "send_message_to_channel",
      "execute_python", "install_package", "sandbox_read_file",
      "sandbox_write_file", "sandbox_list_files", "run_shell",
      "save_to_local", "list_local_files", "read_local_file",
      "delete_local_file", "download_from_sandbox", "upload_to_sandbox",
      "google_calendar_list_events", "google_calendar_create_event",
      "google_sheets_read", "google_sheets_write", "google_drive_list",
      "google_drive_download",
      "ors_list_notes", "ors_add_note", "ors_archive_note" >>

ToolNames == {tool_router[i] : i \in DOMAIN tool_router}

RequiredFields(tool) ==
    CASE tool = "claude_code" -> {"task"}
      [] tool = "claude_code_set_workdir" -> {"path"}
      [] tool = "send_message_to_channel" -> {"channel_id", "message"}
      [] tool = "execute_python" -> {"code"}
      [] tool = "install_package" -> {"package"}
      [] tool = "sandbox_read_file" -> {"path"}
      [] tool = "sandbox_write_file" -> {"path", "content"}
      [] tool = "run_shell" -> {"command"}
      [] tool = "save_to_local" -> {"filename", "content", "user_id"}
      [] tool = "list_local_files" -> {"user_id"}
      [] tool = "read_local_file" -> {"filename", "user_id"}
      [] tool = "delete_local_file" -> {"filename", "user_id"}
      [] tool = "download_from_sandbox" -> {"sandbox_path", "user_id"}
      [] tool = "upload_to_sandbox" -> {"local_filename", "user_id"}
      [] tool = "google_calendar_list_events" -> {"user_id"}
      [] tool = "google_calendar_create_event" ->
            {"user_id", "title", "start_time", "end_time"}
      [] tool = "google_sheets_read" -> {"user_id", "spreadsheet_id", "range"}
      [] tool = "google_sheets_write" ->
            {"user_id", "spreadsheet_id", "range", "values"}
      [] tool = "google_drive_list" -> {"user_id"}
      [] tool = "google_drive_download" -> {"user_id", "file_id"}
      [] tool = "ors_list_notes" -> {"user_id"}
      [] tool = "ors_add_note" -> {"user_id", "content"}
      [] tool = "ors_archive_note" -> {"note_id"}
      [] OTHER -> {}

OptionalFields(tool) ==
    CASE tool = "claude_code" -> {"workdir"}
      [] tool = "sandbox_list_files" -> {"path"}
      [] tool = "download_from_sandbox" -> {"local_filename"}
      [] tool = "upload_to_sandbox" -> {"sandbox_path"}
      [] tool = "google_calendar_list_events" -> {"calendar_id", "max_results"}
      [] tool = "google_calendar_create_event" -> {"description"}
      [] tool = "google_drive_list" -> {"query"}
      [] tool = "ors_add_note" -> {"category"}
      [] OTHER -> {}

Fields(tool) == RequiredFields(tool) \cup OptionalFields(tool)

\* Deserialize as if every String field carried #[serde(default)]: a missing
\* required field becomes the empty string.
Deserialize_defaulted(tool, payload) ==
    LET illTyped == {f \in Fields(tool) \cap DOMAIN payload : payload[f] = WrongType}
    IN  IF illTyped # {}
        THEN [arm |-> "Err", text |-> <<"invalid type">>, params |-> <<>>]
        ELSE [arm |-> "Ok", text |-> <<>>,
              params |-> [f \in Fields(tool) |->
                            IF f \in DOMAIN payload THEN payload[f]
                            ELSE IF f \in RequiredFields(tool) THEN <<>> ELSE None]]

\* serde's derived Deserialize on the tool's parameter struct: Err on a
\* missing required field or a value of the wrong type, else the struct,
\* an absent optional field being None.
Deserialize(tool, payload) ==
    LET missing == RequiredFields(tool) \ DOMAIN payload
        illTyped == {f \in Fields(tool) \cap DOMAIN payload : payload[f] = WrongType}
    IN  IF missing # {}
        THEN [arm |-> "Err", text |-> <<"missing field">>, params |-> <<>>]
        ELSE IF illTyped # {}
        THEN [arm |-> "Err", text |-> <<"invalid type">>, params |-> <<>>]
        ELSE [arm |-> "Ok", text |-> <<>>,
              params |-> [f \in Fields(tool) |->
                            IF f \in DOMAIN payload THEN payload[f] ELSE None]]

(***************************************************************************)
(* Outcomes of the external collaborators.  An HTTP exchange either fails  *)
(* in transport (send() is Err) or yields a response: a non-success status *)
(* ("reject"), or a success status whose body cannot be read               *)
(* ("unreadable"), can be read but is not the JSON the caller expects      *)
(* ("malformed"), or decodes ("ok").                                       *)
(***************************************************************************)
NoJson == [success |-> FALSE, output |-> None, error |-> None, access_token |-> None]

Http(kind, status, readable, body, json) ==
    [kind |-> kind, status |-> status, readable |-> readable, body |-> body, json |-> json]

Transport == Http("transport", "-", FALSE, <<>>, NoJson)
RejectOutcomes ==
    { Http("reject", "500 Internal Server Error", TRUE, <<"remote error">>, NoJson),
      Http("reject", "404 Not Found", FALSE, <<>>, NoJson) }
Unreadable == Http("unreadable", "200 OK", FALSE, <<>>, NoJson)
Malformed == Http("malformed", "200 OK", TRUE, <<"<html>">>, NoJson)
OkBody == Http("ok", "200 OK", TRUE, <<"{}">>, NoJson)

\* Outcomes for a caller that looks at the status only.
StatusOutcomes == {Transport, OkBody} \cup RejectOutcomes
\* Outcomes for a caller that reads the body as text.
TextOutcomes == {Transport, Unreadable, OkBody} \cup RejectOutcomes

\* Bodies of the sandbox API: SandboxResponse {success, output, error}.
SandboxOutput == <<"x">>
SandboxError == <<"sandbox error">>
SandboxOk(success, output, error) ==
    Http("ok", "200 OK", TRUE, <<"{sandbox}">>,
         [success |-> success, output |-> output, error |-> error, access_token |-> None])
SandboxOutcomes ==
    {Transport, Unreadable, Malformed} \cup RejectOutcomes
    \cup {SandboxOk(TRUE, o, None) : o \in {SandboxOutput, None}}
    \cup {SandboxOk(FALSE, None, e) : e \in {SandboxError, None}}

\* Bodies of the token broker: TokenResponse {access_token}.
Tokens == {<<"tok1">>, <<"tok2">>}
TokenOk(t) ==
    Http("ok", "200 OK", TRUE, <<"{token}">>,
         [success |-> FALSE, output |-> None, error |-> None, access_token |-> t])
TokenOkOutcomes == {TokenOk(t) : t \in Tokens}
TokenFailOutcomes == {Transport, Unreadable, Malformed} \cup RejectOutcomes

\* response.text().await.unwrap_or_default()
text_or_default(o) == IF o.readable THEN o.body ELSE <<>>

\* The error a failed send(), text() or json() displays.
ErrText(o) ==
    CASE o.kind = "transport" -> <<"error sending request">>
      [] o.kind = "unreadable" -> <<"error decoding response body">>
      [] o.kind = "malformed" -> <<"error decoding response body">>
      [] OTHER -> <<>>

\* std::process::Command::output(): the spawn fails, or the child exits.
Cli(kind, success, stdout, stderr) ==
    [kind |-> kind, success |-> success, stdout |-> stdout, stderr |-> stderr]
CliOutcomes ==
    { Cli("spawn_fail", FALSE, <<>>, <<>>),
      Cli("exit", FALSE, <<"partial">>, <<"boom">>),
      Cli("exit", TRUE, <<"out", "\n">>, <<>>) }

\* One outbound call, as the collaborator sees it.
Call(svc, method, url, auth, body, dir) ==
    [svc |-> svc, method |-> method, url |-> url, auth |-> auth, body |-> body, dir |-> dir]

(***************************************************************************)
(* What a tool group method returns: the Result arm and its text, the      *)
(* outbound calls it made, and the shared state it leaves.                 *)
(***************************************************************************)
H(arm, text, made, wd, tree) ==
    [arm |-> arm, text |-> text, calls |-> made, workdir |-> wd, fs |-> tree]

(***************************************************************************)
(* tools/sandbox.rs                                                        *)
(***************************************************************************)
\* send().await.unwrap() in place of the map_err: the handler unwinds.
request_failed_unwrap(o, c, wd, tree) == H("Panic", <<>>, <<c>>, wd, tree)

\* A sandbox call that sends the request a second time once send() failed.
request_failed_retried(o, c, wd, tree) ==
    H("Err", <<"Sandbox request failed: ">> \o ErrText(o), <<c, c>>, wd, tree)

\* send().await.map_err(|e| format!("Sandbox request failed: {}", e))?
request_failed(o, c, wd, tree) ==
    H("Err", <<"Sandbox request failed: ">> \o ErrText(o), <<c>>, wd, tree)

\* call_sandbox that falls back to a default URL when none is configured.
call_sandbox_default_url(conf, endpoint, body, o, wd, tree) ==
    LET base_url == IF conf.sandbox_api_url = None THEN <<"http://localhost:8080">>
                    ELSE conf.sandbox_api_url
    IN   LET c == Call("sandbox", "POST", base_url \o <<endpoint>>,
                       IF conf.sandbox_api_key # None
                       THEN <<"X-API-Key: ">> \o conf.sandbox_api_key ELSE <<>>,
                       body, None)
         IN  CASE o.kind = "transport" -> request_failed(o, c, wd, tree)
               [] o.kind = "reject" ->
                    H("Err", <<"Sandbox API error ", o.status, ": ">> \o text_or_default(o),
                      <<c>>, wd, tree)
               [] o.kind \in {"unreadable", "malformed"} ->
                    H("Err", <<"Failed to parse response: ">> \o ErrText(o), <<c>>, wd, tree)
               [] OTHER ->
                    IF o.json.success
                    THEN H("Ok", IF o.json.output = None THEN <<>> ELSE o.json.output,
                           <<c>>, wd, tree)
                    ELSE H("Err", IF o.json.error = None THEN <<"Unknown error">>
                                  ELSE o.json.error, <<c>>, wd, tree)

call_sandbox(conf, endpoint, body, o, wd, tree) ==
    IF conf.sandbox_api_url = None
    THEN H("Err", <<"SANDBOX_API_URL not configured">>, <<>>, wd, tree)
    ELSE LET c == Call("sandbox", "POST", conf.sandbox_api_url \o <<endpoint>>,
                       IF conf.sandbox_api_key # None
                       THEN <<"X-API-Key: ">> \o conf.sandbox_api_key ELSE <<>>,
                       body, None)
         IN  CASE o.kind = "transport" -> request_failed(o, c, wd, tree)
               [] o.kind = "reject" ->
                    H("Err", <<"Sandbox API error ", o.status, ": ">> \o text_or_default(o),
                      <<c>>, wd, tree)
               [] o.kind \in {"unreadable", "malformed"} ->
                    H("Err", <<"Failed to parse response: ">> \o ErrText(o), <<c>>, wd, tree)
               [] OTHER ->
                    IF o.json.success
                    THEN H("Ok", IF o.json.output = None THEN <<>> ELSE o.json.output,
                           <<c>>, wd, tree)
                    ELSE H("Err", IF o.json.error = None THEN <<"Unknown error">>
                                  ELSE o.json.error, <<c>>, wd, tree)

execute_python(conf, p, o, wd, tree) ==
    call_sandbox(conf, "/execute", p.code \o <<"python">>, o, wd, tree)

install_package(conf, p, o, wd, tree) ==
    call_sandbox(conf, "/install", p.package, o, wd, tree)

read_file(conf, path, o, wd, tree) ==
    call_sandbox(conf, "/files/read", path, o, wd, tree)

write_file(conf, path, content, o, wd, tree) ==
    call_sandbox(conf, "/files/write", path \o content, o, wd, tree)

list_files(conf, p, o, wd, tree) ==
    call_sandbox(conf, "/files/list",
                 IF p.path = None THEN <<"/home/user">> ELSE p.path, o, wd, tree)

run_shell(conf, p, o, wd, tree) ==
    call_sandbox(conf, "/shell", p.command, o, wd, tree)

(***************************************************************************)
(* tools/discord.rs                                                        *)
(***************************************************************************)
send_message(conf, p, o, wd, tree) ==
    IF conf.discord_bot_token = None
    THEN H("Err", <<"DISCORD_BOT_TOKEN not set">>, <<>>, wd, tree)
    ELSE LET c == Call("discord", "POST",
                       <<"https://discord.com/api/v10/channels/">> \o p.channel_id
                           \o <<"/messages">>,
                       <<"Bot ">> \o conf.discord_bot_token, p.message, None)
         IN  CASE o.kind = "transport" ->
                    H("Err", <<"Request failed: ">> \o ErrText(o), <<c>>, wd, tree)
               [] o.kind = "reject" ->
                    H("Err", <<"Discord API error ", o.status, ": ">> \o text_or_default(o),
                      <<c>>, wd, tree)
               [] OTHER ->
                    H("Ok", <<"Message sent to channel ">> \o p.channel_id, <<c>>, wd, tree)

(***************************************************************************)
(* tools/ors_notes.rs                                                      *)
(***************************************************************************)
ors_list(conf, p, o, wd, tree) ==
    LET c == Call("ors", "GET", conf.api_base \o <<"/ors/notes/">> \o p.user_id,
                  <<>>, <<>>, None)
    IN  CASE o.kind = "transport" ->
               H("Err", <<"Failed to list notes: ">> \o ErrText(o), <<c>>, wd, tree)
          [] o.kind = "reject" -> H("Ok", <<"No active notes found.">>, <<c>>, wd, tree)
          [] o.kind = "unreadable" -> H("Err", ErrText(o), <<c>>, wd, tree)
          [] OTHER -> H("Ok", o.body, <<c>>, wd, tree)

ors_add(conf, p, o, wd, tree) ==
    LET c == Call("ors", "POST", conf.api_base \o <<"/ors/notes">>, <<>>,
                  p.user_id \o p.content
                      \o (IF p.category = None THEN <<"general">> ELSE p.category),
                  None)
    IN  CASE o.kind = "transport" ->
               H("Err", <<"Failed to add note: ">> \o ErrText(o), <<c>>, wd, tree)
          [] o.kind = "reject" ->
               H("Err", <<"Failed to add note: ">> \o text_or_default(o), <<c>>, wd, tree)
          [] OTHER -> H("Ok", <<"Note added successfully.">>, <<c>>, wd, tree)

ors_archive(conf, p, o, wd, tree) ==
    LET c == Call("ors", "POST",
                  conf.api_base \o <<"/ors/notes/">> \o p.note_id \o <<"/archive">>,
                  <<>>, <<>>, None)
    IN  CASE o.kind = "transport" ->
               H("Err", <<"Failed to archive note: ">> \o ErrText(o), <<c>>, wd, tree)
          [] o.kind = "reject" ->
               H("Err", <<"Failed to archive note: ">> \o text_or_default(o), <<c>>, wd, tree)
          [] OTHER -> H("Ok", <<"Note archived.">>, <<c>>, wd, tree)

(***************************************************************************)
(* tools/google.rs.  os is the sequence of outcomes of the outbound calls  *)
(* in the order they are made: the token broker first, then the API.       *)
(***************************************************************************)
token_call(conf, user_id) ==
    Call("token_broker", "GET",
         conf.api_base \o <<"/oauth/google/token/">> \o user_id, <<>>, <<>>, None)

\* A get_token that asks the broker for the token of one fixed account.
get_token_default_user(conf, user_id, o) ==
    LET c == token_call(conf, <<"default">>)
    IN  IF o.kind = "ok"
        THEN [arm |-> "Ok", text |-> o.json.access_token, calls |-> <<c>>]
        ELSE [arm |-> "Err", text |-> <<"Failed to get token: ">> \o ErrText(o),
              calls |-> <<c>>]

\* get_token: the Result arm, its text (the token on Ok), and the call made.
get_token(conf, user_id, o) ==
    LET c == token_call(conf, user_id)
    IN  CASE o.kind = "transport" ->
               [arm |-> "Err", text |-> <<"Failed to get token: ">> \o ErrText(o), calls |-> <<c>>]
          [] o.kind = "reject" ->
               [arm |-> "Err",
                text |-> <<"Google account not connected. Use google_connect first.">>,
                calls |-> <<c>>]
          [] o.kind \in {"unreadable", "malformed"} ->
               [arm |-> "Err", text |-> <<"Failed to parse token: ">> \o ErrText(o),
                calls |-> <<c>>]
          [] OTHER -> [arm |-> "Ok", text |-> o.json.access_token, calls |-> <<c>>]

google_call(method, url, token, body) ==
    Call("google", method, url, <<"Bearer ">> \o token, body, None)

\* A tail that sends the request and then sends it again for the body.
google_fetch_text_twice(api, c, t, o, wd, tree) ==
    CASE o.kind = "transport" ->
           H("Err", <<api, " API failed: ">> \o ErrText(o), t.calls \o <<c>>, wd, tree)
      [] ~o.readable ->
           H("Err", <<"error decoding response body">>, t.calls \o <<c, c>>, wd, tree)
      [] OTHER -> H("Ok", o.body, t.calls \o <<c, c>>, wd, tree)

\* The tail shared by calendar_list_events, sheets_read, drive_list and
\* drive_download: send, then return the body text whatever the status.
google_fetch_text(api, c, t, o, wd, tree) ==
    CASE o.kind = "transport" ->
           H("Err", <<api, " API failed: ">> \o ErrText(o), t.calls \o <<c>>, wd, tree)
      [] ~o.readable ->
           H("Err", <<"error decoding response body">>, t.calls \o <<c>>, wd, tree)
      [] OTHER -> H("Ok", o.body, t.calls \o <<c>>, wd, tree)

calendar_list_events(conf, p, os, wd, tree) ==
    LET t == get_token(conf, p.user_id, os[1])
    IN  IF t.arm = "Err" THEN H("Err", t.text, t.calls, wd, tree)
        ELSE LET cal_id == IF p.calendar_id = None THEN <<"primary">> ELSE p.calendar_id
                 max == IF p.max_results = None THEN <<"10">> ELSE p.max_results
                 c == google_call("GET",
                        <<"https://www.googleapis.com/calendar/v3/calendars/">> \o cal_id
                          \o <<"/events?maxResults=">> \o max
                          \o <<"&singleEvents=true&orderBy=startTime&timeMin=", "now">>,
                        t.text, <<>>)
             IN  google_fetch_text("Calendar", c, t, os[2], wd, tree)

calendar_create_event(conf, p, os, wd, tree) ==
    LET t == get_token(conf, p.user_id, os[1])
    IN  IF t.arm = "Err" THEN H("Err", t.text, t.calls, wd, tree)
        ELSE LET c == google_call("POST",
                        <<"https://www.googleapis.com/calendar/v3/calendars/primary/events">>,
                        t.text,
                        p.title \o (IF p.description = None THEN <<>> ELSE p.description)
                            \o p.start_time \o p.end_time)
                 o == os[2]
             IN  CASE o.kind = "transport" ->
                        H("Err", <<"Calendar API failed: ">> \o ErrText(o),
                          t.calls \o <<c>>, wd, tree)
                   [] o.kind = "reject" ->
                        H("Err", <<"Failed to create event: ">> \o text_or_default(o),
                          t.calls \o <<c>>, wd, tree)
                   [] OTHER ->
                        H("Ok", <<"Created event: ">> \o p.title, t.calls \o <<c>>, wd, tree)

sheets_read(conf, p, os, wd, tree) ==
    LET t == get_token(conf, p.user_id, os[1])
    IN  IF t.arm = "Err" THEN H("Err", t.text, t.calls, wd, tree)
        ELSE LET c == google_call("GET",
                        <<"https://sheets.googleapis.com/v4/spreadsheets/">>
                          \o p.spreadsheet_id \o <<"/values/">> \o p.range,
                        t.text, <<>>)
             IN  google_fetch_text("Sheets", c, t, os[2], wd, tree)

\* sheets_write that sends the values as they came, unparsed.
sheets_write_unparsed(conf, p, os, wd, tree) ==
    LET t == get_token(conf, p.user_id, os[1])
    IN  IF t.arm = "Err" THEN H("Err", t.text, t.calls, wd, tree)
        ELSE LET c == google_call("PUT",
                        <<"https://sheets.googleapis.com/v4/spreadsheets/">>
                          \o p.spreadsheet_id \o <<"/values/">> \o p.range
                          \o <<"?valueInputOption=USER_ENTERED">>,
                        t.text, p.values)
                 o == os[2]
             IN  CASE o.kind = "transport" ->
                        H("Err", <<"Sheets API failed: ">> \o ErrText(o),
                          t.calls \o <<c>>, wd, tree)
                   [] o.kind = "reject" ->
                        H("Err", <<"Failed to write: ">> \o text_or_default(o),
                          t.calls \o <<c>>, wd, tree)
                   [] OTHER ->
                        H("Ok", <<"Wrote data to ">> \o p.range, t.calls \o <<c>>, wd, tree)

\* The strings serde_json::from_str accepts, among the values the requests carry.
JsonTexts == {<<"[[1]]">>}

sheets_write(conf, p, os, wd, tree) ==
    LET t == get_token(conf, p.user_id, os[1])
    IN  IF t.arm = "Err" THEN H("Err", t.text, t.calls, wd, tree)
        ELSE IF p.values \notin JsonTexts
        THEN H("Err", <<"Invalid JSON values: ", "expected value">>, t.calls, wd, tree)
        ELSE LET c == google_call("PUT",
                        <<"https://sheets.googleapis.com/v4/spreadsheets/">>
                          \o p.spreadsheet_id \o <<"/values/">> \o p.range
                          \o <<"?valueInputOption=USER_ENTERED">>,
                        t.text, p.values)
                 o == os[2]
             IN  CASE o.kind = "transport" ->
                        H("Err", <<"Sheets API failed: ">> \o ErrText(o),
                          t.calls \o <<c>>, wd, tree)
                   [] o.kind = "reject" ->
                        H("Err", <<"Failed to write: ">> \o text_or_default(o),
                          t.calls \o <<c>>, wd, tree)
                   [] OTHER ->
                        H("Ok", <<"Wrote data to ">> \o p.range, t.calls \o <<c>>, wd, tree)

drive_list(conf, p, os, wd, tree) ==
    LET t == get_token(conf, p.user_id, os[1])
    IN  IF t.arm = "Err" THEN H("Err", t.text, t.calls, wd, tree)
        ELSE LET c == google_call("GET",
                        <<"https://www.googleapis.com/drive/v3/files?pageSize=20">>
                          \o (IF p.query = None THEN <<>> ELSE <<"&q=">> \o p.query),
                        t.text, <<>>)
             IN  google_fetch_text("Drive", c, t, os[2], wd, tree)

drive_download(conf, p, os, wd, tree) ==
    LET t == get_token(conf, p.user_id, os[1])
    IN  IF t.arm = "Err" THEN H("Err", t.text, t.calls, wd, tree)
        ELSE LET c == google_call("GET",
                        <<"https://www.googleapis.com/drive/v3/files/">> \o p.file_id
                          \o <<"?alt=media">>,
                        t.text, <<>>)
             IN  google_fetch_text("Drive", c, t, os[2], wd, tree)

(***************************************************************************)
(* tools/claude_code.rs.  No code panics while it holds the RwLock, so the *)
(* lock is never poisoned and read() and write() are Ok.                   *)
(***************************************************************************)
\* An execute that keeps the directory it ran in as the stored one.
execute_storing_workdir(conf, p, o, wd, tree) ==
    LET dir == IF p.workdir # None THEN p.workdir ELSE wd
        c == Call("claude", "spawn",
                  <<"claude", "--print">> \o p.task
                    \o (IF conf.max_turns = None THEN <<>>
                        ELSE <<"--max-turns">> \o conf.max_turns),
                  <<>>, <<>>, dir)
    IN  CASE o.kind = "spawn_fail" ->
               H("Err", <<"Failed to run Claude Code: ", "No such file or directory">>,
                 <<c>>, dir, tree)
          [] o.success -> H("Ok", o.stdout, <<c>>, dir, tree)
          [] OTHER ->
               H("Err", <<"Claude Code failed: ">> \o o.stdout \o <<"\n">> \o o.stderr,
                 <<c>>, dir, tree)

execute(conf, p, o, wd, tree) ==
    LET dir == IF p.workdir # None THEN p.workdir ELSE wd
        c == Call("claude", "spawn",
                  <<"claude", "--print">> \o p.task
                    \o (IF conf.max_turns = None THEN <<>>
                        ELSE <<"--max-turns">> \o conf.max_turns),
                  <<>>, <<>>, dir)
    IN  CASE o.kind = "spawn_fail" ->
               H("Err", <<"Failed to run Claude Code: ", "No such file or directory">>,
                 <<c>>, wd, tree)
          [] o.success -> H("Ok", o.stdout, <<c>>, wd, tree)
          [] OTHER ->
               H("Err", <<"Claude Code failed: ">> \o o.stdout \o <<"\n">> \o o.stderr,
                 <<c>>, wd, tree)

get_workdir(wd, tree) ==
    H("Ok", IF wd = None THEN <<"Not set">> ELSE wd, <<>>, wd, tree)

\* set_workdir storing the path before it looks at Path::exists.
set_workdir_store_first(p, exists, wd, tree) ==
    IF ~exists
    THEN H("Err", <<"Path does not exist: ">> \o p.path, <<>>, p.path, tree)
    ELSE H("Ok", <<"Working directory set to: ">> \o p.path, <<>>, p.path, tree)

\* exists: what Path::exists answers for the path of this call.
set_workdir(p, exists, wd, tree) ==
    IF ~exists
    THEN H("Err", <<"Path does not exist: ">> \o p.path, <<>>, wd, tree)
    ELSE H("Ok", <<"Working directory set to: ">> \o p.path, <<>>, p.path, tree)

\* str::trim: drops leading and trailing whitespace.
Whitespace == {" ", "\n"}

RECURSIVE trim_start(_)
trim_start(text) ==
    IF text # <<>> /\ Head(text) \in Whitespace THEN trim_start(Tail(text)) ELSE text

RECURSIVE trim_end(_)
trim_end(text) ==
    IF text # <<>> /\ text[Len(text)] \in Whitespace
    THEN trim_end(SubSeq(text, 1, Len(text) - 1)) ELSE text

trim(text) == trim_end(trim_start(text))

\* A status that clears the stored working directory when the CLI is missing.
status_clearing_workdir(o, wd, tree) ==
    LET c == Call("claude", "spawn", <<"claude", "--version">>, <<>>, <<>>, None)
    IN  CASE o.kind = "spawn_fail" ->
               H("Err", <<"Claude Code CLI not installed">>, <<c>>, None, tree)
          [] o.success ->
               H("Ok", <<"Claude Code: Available\nVersion: ">> \o trim(o.stdout)
                         \o <<"\nWorkdir: ">> \o get_workdir(wd, tree).text,
                 <<c>>, wd, tree)
          [] OTHER ->
               H("Err", <<"Claude Code CLI not authenticated or configured">>,
                 <<c>>, wd, tree)

status(o, wd, tree) ==
    LET c == Call("claude", "spawn", <<"claude", "--version">>, <<>>, <<>>, None)
    IN  CASE o.kind = "spawn_fail" ->
               H("Err", <<"Claude Code CLI not installed">>, <<c>>, wd, tree)
          [] o.success ->
               H("Ok", <<"Claude Code: Available\nVersion: ">> \o trim(o.stdout)
                         \o <<"\nWorkdir: ">> \o get_workdir(wd, tree).text,
                 <<c>>, wd, tree)
          [] OTHER ->
               H("Err", <<"Claude Code CLI not authenticated or configured">>,
                 <<c>>, wd, tree)

(***************************************************************************)
(* tools/local_files.rs.  The tree under base_dir is a function from paths *)
(* (sequences of names, the empty path being base_dir) to entries.         *)
(* LocalFilesTools::new has created base_dir.  io tells whether the        *)
(* operating system lets the writes, reads and removals of this call       *)
(* through (FALSE: it refuses them, as on a full or read-only disk).       *)
(***************************************************************************)
Root == <<>>
Dir == [kind |-> "dir", content |-> <<>>]
File(content) == [kind |-> "file", content |-> content]

IsDir(tree, path) == path \in DOMAIN tree /\ tree[path].kind = "dir"
IsFile(tree, path) == path \in DOMAIN tree /\ tree[path].kind = "file"
Parent(path) == SubSeq(path, 1, Len(path) - 1)

\* PathBuf::join with a name that holds no separator: joining the empty
\* name yields the directory itself.
join(dir, name) == IF name = <<>> THEN dir ELSE Append(dir, name)

\* fs::create_dir_all(path).ok(): creates the directory when it is missing
\* and its parent is a directory; any error is dropped.
create_dir_all(tree, path, io) ==
    IF path \notin DOMAIN tree /\ path # Root /\ IsDir(tree, Parent(path)) /\ io
    THEN (path :> Dir) @@ tree
    ELSE tree

\* user_dir: the path and the tree it leaves.
user_dir(tree, user_id, io) ==
    LET path == join(Root, sanitize_filename(user_id))
    IN  [path |-> path, fs |-> create_dir_all(tree, path, io)]

\* fs::write succeeds on a missing or regular file in an existing directory.
CanWrite(tree, path, io) ==
    io /\ path # Root /\ ~IsDir(tree, path) /\ IsDir(tree, Parent(path))

save(p, io, wd, tree) ==
    LET safe_name == sanitize_filename(p.filename)
        ud == user_dir(tree, p.user_id, io)
        path == join(ud.path, safe_name)
    IN  IF CanWrite(ud.fs, path, io)
        THEN H("Ok", <<"Saved ">> \o safe_name
                       \o <<" (", Display(Len(p.content)), " bytes)">>,
               <<>>, wd, (path :> File(p.content)) @@ ud.fs)
        ELSE H("Err", <<"Failed to save file: ", "os error">>, <<>>, wd, ud.fs)

\* The entries WalkDir(dir).max_depth(1) yields that are regular files: the
\* children of a directory, or dir itself when it is a regular file.
WalkFiles(tree, dir) ==
    IF IsFile(tree, dir) THEN {dir}
    ELSE {q \in DOMAIN tree : Len(q) = Len(dir) + 1 /\ Parent(q) = dir /\ IsFile(tree, q)}

\* The orders in which the operating system may yield a set of entries.
RECURSIVE Orders(_)
Orders(S) ==
    IF S = {} THEN {<<>>}
    ELSE UNION {{<<x>> \o rest : rest \in Orders(S \ {x})} : x \in S}

\* What WalkDir yields for the user's directory in this call.
ListedFiles(tree, user_id, io) ==
    LET ud == user_dir(tree, user_id, io)
    IN  IF io THEN WalkFiles(ud.fs, ud.path) ELSE {}

ListLine(tree, q) ==
    <<"- ">> \o q[Len(q)] \o <<" (", Display(Len(tree[q].content)), " bytes)">>

RECURSIVE JoinLines(_, _)
JoinLines(tree, order) ==
    IF order = <<>> THEN <<>>
    ELSE ListLine(tree, Head(order))
           \o (IF Tail(order) = <<>> THEN <<>> ELSE <<"\n">> \o JoinLines(tree, Tail(order)))

\* order: the order in which WalkDir yields the entries of this call.
list(p, order, io, wd, tree) ==
    LET ud == user_dir(tree, p.user_id, io)
    IN  IF order = <<>>
        THEN H("Ok", <<"No files saved.">>, <<>>, wd, ud.fs)
        ELSE H("Ok", <<"**Saved Files:**\n">> \o JoinLines(ud.fs, order), <<>>, wd, ud.fs)

\* read that removes the file it returned.
read_removing_file(p, io, wd, tree) ==
    LET safe_name == sanitize_filename(p.filename)
        ud == user_dir(tree, p.user_id, io)
        path == join(ud.path, safe_name)
    IN  IF path \notin DOMAIN ud.fs
        THEN H("Err", <<"File not found: ">> \o safe_name, <<>>, wd, ud.fs)
        ELSE IF IsFile(ud.fs, path) /\ io
        THEN H("Ok", ud.fs[path].content, <<>>, wd,
               Restrict(ud.fs, DOMAIN ud.fs \ {path}))
        ELSE H("Err", <<"Failed to read file: ", "os error">>, <<>>, wd, ud.fs)

read(p, io, wd, tree) ==
    LET safe_name == sanitize_filename(p.filename)
        ud == user_dir(tree, p.user_id, io)
        path == join(ud.path, safe_name)
    IN  IF path \notin DOMAIN ud.fs
        THEN H("Err", <<"File not found: ">> \o safe_name, <<>>, wd, ud.fs)
        ELSE IF IsFile(ud.fs, path) /\ io
        THEN H("Ok", ud.fs[path].content, <<>>, wd, ud.fs)
        ELSE H("Err", <<"Failed to read file: ", "os error">>, <<>>, wd, ud.fs)

\* delete that reports the removal and leaves the file.
delete_keeping_file(p, io, wd, tree) ==
    LET safe_name == sanitize_filename(p.filename)
        ud == user_dir(tree, p.user_id, io)
        path == join(ud.path, safe_name)
    IN  IF path \notin DOMAIN ud.fs
        THEN H("Err", <<"File not found: ">> \o safe_name, <<>>, wd, ud.fs)
        ELSE IF IsFile(ud.fs, path) /\ io
        THEN H("Ok", <<"Deleted: ">> \o safe_name, <<>>, wd, ud.fs)
        ELSE H("Err", <<"Failed to delete file: ", "os error">>, <<>>, wd, ud.fs)

delete(p, io, wd, tree) ==
    LET safe_name == sanitize_filename(p.filename)
        ud == user_dir(tree, p.user_id, io)
        path == join(ud.path, safe_name)
    IN  IF path \notin DOMAIN ud.fs
        THEN H("Err", <<"File not found: ">> \o safe_name, <<>>, wd, ud.fs)
        ELSE IF IsFile(ud.fs, path) /\ io
        THEN H("Ok", <<"Deleted: ">> \o safe_name, <<>>, wd,
               Restrict(ud.fs, DOMAIN ud.fs \ {path}))
        ELSE H("Err", <<"Failed to delete file: ", "os error">>, <<>>, wd, ud.fs)

\* sandbox_path.split('/').last(): the text after the last separator.
RECURSIVE split_last(_)
split_last(path) ==
    IF \E i \in 1..Len(path) : path[i] = "/"
    THEN split_last(Tail(path))
    ELSE path

\* download_from_sandbox that creates the local file before the sandbox read.
download_creating_first(conf, p, o, io, wd, tree) ==
    LET got == read_file(conf, p.sandbox_path, o, wd, tree)
        filename == IF p.local_filename = None THEN split_last(p.sandbox_path)
                    ELSE p.local_filename
        saved == save([filename |-> filename,
                       content |-> IF got.arm = "Err" THEN <<>> ELSE got.text,
                       user_id |-> p.user_id], io, wd, tree)
    IN  IF got.arm = "Err" THEN H("Err", got.text, got.calls, wd, saved.fs)
        ELSE IF saved.arm = "Err"
        THEN H("Err", saved.text, got.calls, wd, saved.fs)
        ELSE H("Ok", <<"Downloaded ">> \o filename \o <<" from sandbox">>,
               got.calls, wd, saved.fs)

download_from_sandbox(conf, p, o, io, wd, tree) ==
    LET got == read_file(conf, p.sandbox_path, o, wd, tree)
    IN  IF got.arm = "Err" THEN got
        ELSE LET filename == IF p.local_filename = None THEN split_last(p.sandbox_path)
                             ELSE p.local_filename
                 saved == save([filename |-> filename, content |-> got.text,
                                user_id |-> p.user_id], io, wd, tree)
             IN  IF saved.arm = "Err"
                 THEN H("Err", saved.text, got.calls, wd, saved.fs)
                 ELSE H("Ok", <<"Downloaded ">> \o filename \o <<" from sandbox">>,
                        got.calls, wd, saved.fs)

upload_to_sandbox(conf, p, o, io, wd, tree) ==
    LET got == read([filename |-> p.local_filename, user_id |-> p.user_id], io, wd, tree)
    IN  IF got.arm = "Err" THEN got
        ELSE LET dest == IF p.sandbox_path = None THEN <<"/home/user/">> \o p.local_filename
                         ELSE p.sandbox_path
                 sent == write_file(conf, dest, got.text, o, wd, got.fs)
             IN  IF sent.arm = "Err" THEN sent
                 ELSE H("Ok", <<"Uploaded ">> \o p.local_filename \o <<" to ">> \o dest,
                        sent.calls, wd, got.fs)

(***************************************************************************)
(* tools/backup.rs.  The module is not declared in tools/mod.rs and no     *)
(* tool method calls it; its methods are modelled as they would run when   *)
(* called directly.  Every body is decoded as a serde_json::Value, so a    *)
(* decode fails when the body cannot be read or is not JSON.  The decoded  *)
(* bodies drawn here are objects holding some of the keys status, message, *)
(* backup_id, last_backup, backups and destinations (None: key absent) and *)
(* no other key; an entry of backups or destinations is an object holding  *)
(* a name or nothing.                                                      *)
(***************************************************************************)
BackupJson(st, message, backup_id, last_backup, backups, destinations) ==
    [status |-> st, message |-> message, backup_id |-> backup_id,
     last_backup |-> last_backup, backups |-> backups, destinations |-> destinations]

BackupOk(j) == Http("ok", "200 OK", TRUE, <<"{backup}">>, j)

BackupOutcomes ==
    {Transport, Unreadable, Malformed} \cup RejectOutcomes
    \cup { BackupOk(BackupJson(None, None, None, None, None, None)),
           BackupOk(BackupJson(None, <<>>, None, None, <<>>, <<>>)),
           BackupOk(BackupJson(<<"success">>, <<"done">>, <<"abc">>, <<"2024-01-01">>,
                               << <<"b1">>, None >>, << <<"d1">>, None >>)) }

\* Option::unwrap_or
unwrap_or(v, default) == IF v = None THEN default ELSE v

\* [String]::join
RECURSIVE join_str(_, _)
join_str(items, sep) ==
    IF items = <<>> THEN <<>>
    ELSE Head(items) \o (IF Tail(items) = <<>> THEN <<>>
                         ELSE <<sep>> \o join_str(Tail(items), sep))

\* The query string of backup_now and list_backups.
backup_query(params) ==
    IF params = <<>> THEN <<>> ELSE <<"?">> \o join_str(params, "&")

backup_call(conf, method, path, query, body) ==
    Call("backup", method, conf.api_base \o <<path>> \o query, <<>>, body, None)

\* backup_now answering Err when the body of a success response does not decode.
backup_now_parse_error_failed(o) ==
    [arm |-> "Err", text |-> <<"Failed to parse backup response: ">> \o ErrText(o)]

\* Err(e) => Ok(format!("Backup triggered (response parse error: {})", e))
backup_now_parse_error(o) ==
    [arm |-> "Ok",
     text |-> <<"Backup triggered (response parse error: ">> \o ErrText(o) \o <<")">>]

\* Err(e) => Ok(format!("Schedule updated (response parse error: {})", e))
set_schedule_parse_error(o) ==
    [arm |-> "Ok",
     text |-> <<"Schedule updated (response parse error: ">> \o ErrText(o) \o <<")">>]

\* Err(e) => Err(format!("Failed to parse ...: {}", e)) of list_backups,
\* get_status and list_destinations.
parse_error_err(prefix, o) == [arm |-> "Err", text |-> <<prefix>> \o ErrText(o)]

\* The match every method makes on send(): the transport error, the
\* non-success status, the body that does not decode, the decoded body.
backup_exchange(c, o, rejected, on_parse_error, text, wd, tree) ==
    CASE o.kind = "transport" ->
           H("Err", <<"Failed to connect to backup service: ">> \o ErrText(o),
             <<c>>, wd, tree)
      [] o.kind = "reject" ->
           H("Err", <<rejected, o.status, " - ">> \o text_or_default(o), <<c>>, wd, tree)
      [] o.kind \in {"unreadable", "malformed"} ->
           H(on_parse_error.arm, on_parse_error.text, <<c>>, wd, tree)
      [] OTHER -> H("Ok", text, <<c>>, wd, tree)

backup_now(conf, destination, databases, o, wd, tree) ==
    LET params == (IF destination = None THEN <<>>
                   ELSE << <<"destination=">> \o destination >>)
                  \o (IF databases = None THEN <<>>
                      ELSE << <<"databases=">> \o join_str(databases, ",") >>)
        c == backup_call(conf, "POST", "/api/backup/now", backup_query(params), <<>>)
        data == o.json
        message == unwrap_or(data.message, <<>>)
    IN  backup_exchange(c, o, "Backup failed: ", backup_now_parse_error(o),
            <<"Backup ">> \o unwrap_or(data.status, <<"unknown">>) \o <<"\n">>
              \o (IF message # <<>> THEN <<"Message: ">> \o message \o <<"\n">> ELSE <<>>)
              \o (IF data.backup_id # None
                  THEN <<"Backup ID: ">> \o data.backup_id \o <<"\n">> ELSE <<>>),
            wd, tree)

\* One entry of the listing: the keys other than name are absent.
RECURSIVE backup_entries(_)
backup_entries(items) ==
    IF items = <<>> THEN <<>>
    ELSE <<"- ">> \o unwrap_or(Head(items), <<"unknown">>)
           \o <<" (", "unknown", ")\n  Database: ", "unknown", "\n  Size: ", "0",
                " bytes", "\n  Destination: ", "default", "\n\n">>
           \o backup_entries(Tail(items))

list_backups(conf, destination, database, limit, o, wd, tree) ==
    LET params == (IF destination = None THEN <<>>
                   ELSE << <<"destination=">> \o destination >>)
                  \o (IF database = None THEN <<>> ELSE << <<"database=">> \o database >>)
                  \o (IF limit = None THEN <<>> ELSE << <<"limit=">> \o limit >>)
        c == backup_call(conf, "GET", "/api/backup/list", backup_query(params), <<>>)
        backups == o.json.backups
    IN  backup_exchange(c, o, "Failed to list backups: ",
            parse_error_err("Failed to parse backup list: ", o),
            IF backups # None /\ backups # <<>>
            THEN <<"Found ", Display(Len(backups)), " backup(s):\n\n">>
                   \o backup_entries(backups)
            ELSE <<"No backups found.">>,
            wd, tree)

\* The destinations get_status prints: those that hold a name.
RECURSIVE status_destinations(_)
status_destinations(items) ==
    IF items = <<>> THEN <<>>
    ELSE (IF Head(items) # None
          THEN <<"  - ">> \o Head(items) \o <<" (", "unknown", ") - ", "unknown", "\n">>
          ELSE <<>>)
           \o status_destinations(Tail(items))

get_status(conf, o, wd, tree) ==
    LET c == backup_call(conf, "GET", "/api/backup/status", <<>>, <<>>)
        data == o.json
    IN  backup_exchange(c, o, "Failed to get status: ",
            parse_error_err("Failed to parse status: ", o),
            <<"Backup Status:\n\n">>
              \o (IF data.last_backup # None
                  THEN <<"Last backup: ">> \o data.last_backup \o <<"\n">>
                  ELSE <<"Last backup: Never\n">>)
              \o (IF data.destinations # None
                  THEN <<"\nConfigured destinations:\n">>
                         \o status_destinations(data.destinations)
                  ELSE <<>>),
            wd, tree)

set_schedule(conf, enabled, cron, retention_days, o, wd, tree) ==
    LET body == <<"enabled=", IF enabled THEN "true" ELSE "false">>
                  \o (IF cron = None THEN <<>> ELSE <<"cron=">> \o cron)
                  \o (IF retention_days = None THEN <<>>
                      ELSE <<"retention_days=">> \o retention_days)
        c == backup_call(conf, "POST", "/api/backup/schedule", <<>>, body)
        data == o.json
        message == unwrap_or(data.message, <<>>)
    IN  backup_exchange(c, o, "Failed to update schedule: ", set_schedule_parse_error(o),
            <<"Schedule ">> \o unwrap_or(data.status, <<"updated">>) \o <<"\n">>
              \o (IF message # <<>> THEN message \o <<"\n">> ELSE <<>>),
            wd, tree)

RECURSIVE destination_entries(_)
destination_entries(items) ==
    IF items = <<>> THEN <<>>
    ELSE <<"- ">> \o unwrap_or(Head(items), <<"unknown">>) \o <<" (", "unknown", ")", "\n">>
           \o <<"  Status: ", "unknown", "\n", "\n">>
           \o destination_entries(Tail(items))

list_destinations(conf, o, wd, tree) ==
    LET c == backup_call(conf, "GET", "/api/backup/destinations", <<>>, <<>>)
        destinations == o.json.destinations
    IN  backup_exchange(c, o, "Failed to list destinations: ",
            parse_error_err("Failed to parse destinations: ", o),
            IF destinations # None /\ destinations # <<>>
            THEN <<"Configured destinations (", Display(Len(destinations)), "):\n\n">>
                   \o destination_entries(destinations)
            ELSE <<"No destinations configured.\n\nUse backup_config to add a destination.">>,
            wd, tree)

(***************************************************************************)
(* main.rs: the tool router and the tool methods.                          *)
(***************************************************************************)
NotFound == "#NotFound"
NoHandler == "#none"
NoRequest == [name |-> "#none", payload |-> <<>>]
NoResult == [arm |-> "#none", text |-> <<>>]
NoResponse == [kind |-> "#none", content |-> <<>>]

\* What the environment answers during one dispatch: the outcomes of the
\* HTTP exchanges in order, of the subprocess, of Path::exists, of the
\* filesystem calls, and the order WalkDir yields.
NoOutcome ==
    [http |-> <<>>, cli |-> Cli("spawn_fail", FALSE, <<>>, <<>>), exists |-> FALSE,
     io |-> TRUE, order |-> <<>>]

\* The reqwest::Client instances ClaraServer::new leaves: each of these tool
\* groups holds the Client::new() of its own constructor.
GroupClients == {"discord", "sandbox", "google", "ors_notes"}

\* The Client a tool method constructs while it runs: download_from_sandbox
\* and upload_to_sandbox each build a SandboxTools, the latter once the local
\* file is read.
clients_built(tool, p, oc, tree) ==
    CASE tool = "download_from_sandbox" -> {"download_from_sandbox"}
      [] tool = "upload_to_sandbox" ->
            IF read([filename |-> p.local_filename, user_id |-> p.user_id],
                    oc.io, None, tree).arm = "Ok"
            THEN {"upload_to_sandbox"} ELSE {}
      [] OTHER -> {}

\* ClaraServer::new: the router is built, nothing has been listed, no tool
\* method is running.
Constructed ==
    /\ registry = tool_router
    /\ listed = <<>>
    /\ clients = GroupClients
    /\ awaiting = FALSE

\* The names the router lists, in the order it holds them.
list_all(reg) == reg

\* A router that drops a tool once it has been called.
router_after_call_unregistered(reg, name) ==
    SelectSeq(reg, LAMBDA n : n # name)

\* The router after a request for name: call_tool takes &self and nothing
\* assigns ClaraServer.tool_router after new().
router_after_call(reg, name) == reg

\* str::to_lowercase on the names requested here.
to_lowercase(name) == IF name = "Claude_Code" THEN "claude_code" ELSE name

\* A lookup that compares names without regard to case.
lookup_case_insensitive(name) ==
    IF \E i \in DOMAIN registry : registry[i] = to_lowercase(name)
    THEN to_lowercase(name) ELSE NotFound

\* A lookup that falls back to a default tool on a miss.
lookup_with_default(name) ==
    IF name \in ToolNames THEN name ELSE "claude_code_get_workdir"

\* ToolRouter lookup by name: the methods marked #[tool], exact match.
lookup(name) ==
    IF \E i \in DOMAIN registry : registry[i] = name THEN name ELSE NotFound

\* The body of the tool method: the call into the tool group.
CallTool(tool, p, oc, conf, wd, tree) ==
    CASE tool = "claude_code" -> execute(conf, p, oc.cli, wd, tree)
      [] tool = "claude_code_get_workdir" -> get_workdir(wd, tree)
      [] tool = "claude_code_set_workdir" -> set_workdir(p, oc.exists, wd, tree)
      [] tool = "claude_code_status" -> status(oc.cli, wd, tree)
      [] tool = "send_message_to_channel" -> send_message(conf, p, oc.http[1], wd, tree)
      [] tool = "execute_python" -> execute_python(conf, p, oc.http[1], wd, tree)
      [] tool = "install_package" -> install_package(conf, p, oc.http[1], wd, tree)
      [] tool = "sandbox_read_file" -> read_file(conf, p.path, oc.http[1], wd, tree)
      [] tool = "sandbox_write_file" ->
            write_file(conf, p.path, p.content, oc.http[1], wd, tree)
      [] tool = "sandbox_list_files" -> list_files(conf, p, oc.http[1], wd, tree)
      [] tool = "run_shell" -> run_shell(conf, p, oc.http[1], wd, tree)
      [] tool = "save_to_local" -> save(p, oc.io, wd, tree)
      [] tool = "list_local_files" -> list(p, oc.order, oc.io, wd, tree)
      [] tool = "read_local_file" -> read(p, oc.io, wd, tree)
      [] tool = "delete_local_file" -> delete(p, oc.io, wd, tree)
      [] tool = "download_from_sandbox" ->
            download_from_sandbox(conf, p, oc.http[1], oc.io, wd, tree)
      [] tool = "upload_to_sandbox" ->
            upload_to_sandbox(conf, p, oc.http[1], oc.io, wd, tree)
      [] tool = "google_calendar_list_events" -> calendar_list_events(conf, p, oc.http, wd, tree)
      [] tool = "google_calendar_create_event" -> calendar_create_event(conf, p, oc.http, wd, tree)
      [] tool = "google_sheets_read" -> sheets_read(conf, p, oc.http, wd, tree)
      [] tool = "google_sheets_write" -> sheets_write(conf, p, oc.http, wd, tree)
      [] tool = "google_drive_list" -> drive_list(conf, p, oc.http, wd, tree)
      [] tool = "google_drive_download" -> drive_download(conf, p, oc.http, wd, tree)
      [] tool = "ors_list_notes" -> ors_list(conf, p, oc.http[1], wd, tree)
      [] tool = "ors_add_note" -> ors_add(conf, p, oc.http[1], wd, tree)
      [] tool = "ors_archive_note" -> ors_archive(conf, p, oc.http[1], wd, tree)

\* The match with its Err arm also built by CallToolResult::success.
wrap_success_only(r) == [kind |-> "success", content |-> <<r.text>>]

\* The match every tool method ends with: Ok(text) becomes
\* CallToolResult::success(vec![Content::text(text)]), Err(e) becomes
\* CallToolResult::error(vec![Content::text(e)]).
wrap(r) ==
    IF r.arm = "Ok" THEN [kind |-> "success", content |-> <<r.text>>]
    ELSE [kind |-> "failure", content |-> <<r.text>>]

\* The envelope for a name the router does not know.
unknown_operation(name) ==
    [kind |-> "failure", content |-> << <<"unknown operation: ", name>> >>]

\* The envelope for a payload the parameter struct does not accept.
validation_error(text) ==
    [kind |-> "failure", content |-> << <<"validation error: ">> \o text >>]

\* The tool method runs with the parameters p and returns: its effects, its
\* Result, and the envelope the match on the Result builds.
Returned(tool, p, oc) ==
    LET r == CallTool(tool, p, oc, cfg, workdir, fs)
    IN  /\ handler' = tool
        /\ hres' = [arm |-> r.arm, text |-> r.text]
        /\ calls' = r.calls
        /\ workdir' = r.workdir
        /\ fs' = r.fs
        /\ clients' = clients \cup clients_built(tool, p, oc, fs)
        /\ IF r.arm \in {"Ok", "Err"}
           THEN resp' = wrap(r) /\ serverUp' = TRUE
           ELSE resp' = NoResponse /\ serverUp' = FALSE

\* One "invoke operation" request, from the lookup to the envelope; the serve
\* loop takes it when the previous envelope, or the previous listing, is
\* written.  A tool method that
\* unwound instead of returning a Result would leave the request without an
\* envelope and end the serve loop.
Dispatch(rq, oc) ==
    /\ serverUp
    /\ req = NoRequest
    /\ handler = NoHandler
    /\ req' = rq
    /\ env' = oc
    /\ LET tool == lookup(rq.name)
       IN  IF tool = NotFound
           THEN /\ resp' = unknown_operation(rq.name)
                /\ handler' = NoHandler
                /\ hres' = NoResult
                /\ calls' = <<>>
                /\ UNCHANGED <<workdir, fs, serverUp, clients>>
           ELSE LET parsed == Deserialize(tool, rq.payload)
                IN  IF parsed.arm = "Err"
                    THEN /\ resp' = validation_error(parsed.text)
                         /\ handler' = NoHandler
                         /\ hres' = NoResult
                         /\ calls' = <<>>
                         /\ UNCHANGED <<workdir, fs, serverUp, clients>>
                    ELSE Returned(tool, parsed.params, oc)
    /\ registry' = router_after_call(registry, rq.name)
    /\ listed' = <<>>
    /\ UNCHANGED <<cfg, awaiting, sanVars, concVars>>

(***************************************************************************)
(* The tool methods of main.rs, one action each, and a request for a name  *)
(* no method carries.                                                      *)
(***************************************************************************)
tool_claude_code(payload, oc) == Dispatch([name |-> "claude_code", payload |-> payload], oc)

tool_claude_code_get_workdir(payload, oc) == Dispatch([name |-> "claude_code_get_workdir", payload |-> payload], oc)

tool_claude_code_set_workdir(payload, oc) == Dispatch([name |-> "claude_code_set_workdir", payload |-> payload], oc)

tool_claude_code_status(payload, oc) == Dispatch([name |-> "claude_code_status", payload |-> payload], oc)

tool_send_message_to_channel(payload, oc) == Dispatch([name |-> "send_message_to_channel", payload |-> payload], oc)

tool_execute_python(payload, oc) == Dispatch([name |-> "execute_python", payload |-> payload], oc)

tool_install_package(payload, oc) == Dispatch([name |-> "install_package", payload |-> payload], oc)

tool_sandbox_read_file(payload, oc) == Dispatch([name |-> "sandbox_read_file", payload |-> payload], oc)

tool_sandbox_write_file(payload, oc) == Dispatch([name |-> "sandbox_write_file", payload |-> payload], oc)

tool_sandbox_list_files(payload, oc) == Dispatch([name |-> "sandbox_list_files", payload |-> payload], oc)

tool_run_shell(payload, oc) == Dispatch([name |-> "run_shell", payload |-> payload], oc)

tool_save_to_local(payload, oc) == Dispatch([name |-> "save_to_local", payload |-> payload], oc)

tool_list_local_files(payload, oc) == Dispatch([name |-> "list_local_files", payload |-> payload], oc)

tool_read_local_file(payload, oc) == Dispatch([name |-> "read_local_file", payload |-> payload], oc)

tool_delete_local_file(payload, oc) == Dispatch([name |-> "delete_local_file", payload |-> payload], oc)

tool_download_from_sandbox(payload, oc) == Dispatch([name |-> "download_from_sandbox", payload |-> payload], oc)

tool_upload_to_sandbox(payload, oc) == Dispatch([name |-> "upload_to_sandbox", payload |-> payload], oc)

tool_google_calendar_list_events(payload, oc) == Dispatch([name |-> "google_calendar_list_events", payload |-> payload], oc)

tool_google_calendar_create_event(payload, oc) == Dispatch([name |-> "google_calendar_create_event", payload |-> payload], oc)

tool_google_sheets_read(payload, oc) == Dispatch([name |-> "google_sheets_read", payload |-> payload], oc)

tool_google_sheets_write(payload, oc) == Dispatch([name |-> "google_sheets_write", payload |-> payload], oc)

tool_google_drive_list(payload, oc) == Dispatch([name |-> "google_drive_list", payload |-> payload], oc)

tool_google_drive_download(payload, oc) == Dispatch([name |-> "google_drive_download", payload |-> payload], oc)

tool_ors_list_notes(payload, oc) == Dispatch([name |-> "ors_list_notes", payload |-> payload], oc)

tool_ors_add_note(payload, oc) == Dispatch([name |-> "ors_add_note", payload |-> payload], oc)

tool_ors_archive_note(payload, oc) == Dispatch([name |-> "ors_archive_note", payload |-> payload], oc)

\* The transport writes the envelope to the output stream; request and
\* envelope are dropped and the serve loop reads the next request.
Respond ==
    /\ serverUp
    /\ req # NoRequest
    /\ resp # NoResponse
    /\ req' = NoRequest
    /\ handler' = NoHandler
    /\ hres' = NoResult
    /\ resp' = NoResponse
    /\ calls' = <<>>
    /\ env' = NoOutcome
    /\ clients' = GroupClients
    /\ UNCHANGED <<workdir, fs, cfg, serverUp, registry, listed, awaiting, sanVars, concVars>>

\* A "list tools" request: the handler answers with the router's listing.
list_tools ==
    /\ serverUp
    /\ req = NoRequest
    /\ listed' = list_all(registry)
    /\ UNCHANGED <<workdir, fs, cfg, req, handler, hres, resp, calls, env,
                   serverUp, registry, clients, awaiting, sanVars, concVars>>

UnknownOperation(name, payload) ==
    /\ name \notin ToolNames
    /\ Dispatch([name |-> name, payload |-> payload], NoOutcome)

(***************************************************************************)
(* The requests and environment outcomes the specifications draw from.     *)
(***************************************************************************)
\* The paths set_workdir is asked to store, and the one a request may carry.
Paths == {<<"/w1">>, <<"/w2">>}

EmptyPayload == [f \in {} |-> None]

\* The payloads the parameter struct accepts: every required field and any
\* subset of the optional ones, with values drawn from vals[field].
ValidPayloads(tool, vals) ==
    UNION { {pl \in [S -> UNION {vals[f] : f \in S}] : \A f \in S : pl[f] \in vals[f]} :
            S \in {RequiredFields(tool) \cup O : O \in SUBSET OptionalFields(tool)} }

\* Payloads it rejects: one required field missing, one field of the wrong
\* type, and (when a field is required) the empty payload.
InvalidPayloads(tool, vals) ==
    LET full == [f \in Fields(tool) |-> CHOOSE v \in vals[f] : TRUE]
    IN  {Restrict(full, Fields(tool) \ {f}) : f \in RequiredFields(tool)}
        \cup {[full EXCEPT ![f] = WrongType] : f \in Fields(tool)}
        \cup (IF RequiredFields(tool) = {} THEN {} ELSE {EmptyPayload})

\* Pairs of a payload and what the environment answers: every outcome for a
\* payload that reaches the tool group, none for one that does not.
Inputs(tool, vals, Ocs) ==
    {<<pl, oc>> : pl \in ValidPayloads(tool, vals), oc \in Ocs}
    \cup {<<pl, NoOutcome>> : pl \in InvalidPayloads(tool, vals)}

CliOcs == {[NoOutcome EXCEPT !.cli = o] : o \in CliOutcomes}
ExistsOcs == {[NoOutcome EXCEPT !.exists = b] : b \in BOOLEAN}
IoOcs == {[NoOutcome EXCEPT !.io = b] : b \in BOOLEAN}
HttpOcs(S) == {[NoOutcome EXCEPT !.http = <<o>>] : o \in S}
HttpIoOcs(S) == {[NoOutcome EXCEPT !.http = <<o>>, !.io = b] : o \in S, b \in BOOLEAN}
\* Two exchanges: the API is reached only with a token.
GoogleOcs(S) ==
    {[NoOutcome EXCEPT !.http = <<o>>] : o \in TokenFailOutcomes}
    \cup {[NoOutcome EXCEPT !.http = <<t, o>>] : t \in TokenOkOutcomes, o \in S}

\* For list_local_files: every order WalkDir may yield on the current tree.
ListInputs(vals) ==
    UNION { {<<plb[1], [NoOutcome EXCEPT !.io = plb[2], !.order = ord]>> :
                ord \in Orders(ListedFiles(fs, plb[1].user_id, plb[2]))} :
            plb \in ValidPayloads("list_local_files", vals) \X BOOLEAN }
    \cup {<<pl, NoOutcome>> : pl \in InvalidPayloads("list_local_files", vals)}

(***************************************************************************)
(* The server: every tool method, on requests whose file arguments stay    *)
(* within one user and one filename.                                       *)
(***************************************************************************)
FileTools ==
    {"save_to_local", "list_local_files", "read_local_file", "delete_local_file",
     "download_from_sandbox", "upload_to_sandbox"}

SrvValues(tool, f) ==
    CASE tool = "claude_code_set_workdir" /\ f = "path" -> Paths
      [] tool = "claude_code" /\ f = "workdir" -> {<<"/w1">>}
      [] tool \in FileTools /\ f = "user_id" -> {<<"b">>}
      [] tool \in FileTools /\ f \in {"filename", "local_filename"} -> {<<"f">>}
      [] tool \in FileTools /\ f = "content" -> {<<"x">>}
      [] tool \in FileTools /\ f = "sandbox_path" -> {<<"d", "/", "f">>}
      [] tool = "google_sheets_write" /\ f = "values" -> {<<"[[1]]">>, <<"not json">>}
      [] f = "user_id" -> {<<"u", "1">>}
      [] OTHER -> {<<"v">>}

\* The environments the server may be constructed in: nothing configured,
\* everything configured, and the sandbox configured without an API key.
Configs ==
    { [sandbox_api_url |-> None, sandbox_api_key |-> None, discord_bot_token |-> None,
       max_turns |-> None, api_base |-> <<"http://localhost:8000">>],
      [sandbox_api_url |-> <<"http://sandbox">>, sandbox_api_key |-> <<"key">>,
       discord_bot_token |-> <<"bot-token">>, max_turns |-> <<"5">>,
       api_base |-> <<"http://clara">>],
      [sandbox_api_url |-> <<"http://sandbox">>, sandbox_api_key |-> None,
       discord_bot_token |-> <<"bot-token">>, max_turns |-> None,
       api_base |-> <<"http://localhost:8000">>] }

\* Names no tool method carries.
UnknownNames == {"does_not_exist", "backup_now", "Claude_Code"}

SanIdle == sanIn = <<>> /\ sanOut = <<>> /\ sanDone = TRUE

\* The lock of the stored working directory, free.
Unlocked == [writer |-> 0, readers |-> {}]

\* No file or workdir request in flight.
ParIdle == par = <<>> /\ start = <<>>

ConcIdle ==
    /\ cell = <<None, None>>
    /\ lock = Unlocked
    /\ task = <<>>
    /\ stored = {}
    /\ ParIdle

\* ClaraServer::new: the working directory is CLAUDE_CODE_WORKDIR when set,
\* base_dir exists and holds what earlier calls left (here: nothing).
Init ==
    /\ workdir \in {None, <<"/w0">>}
    /\ fs = (Root :> Dir)
    /\ cfg \in Configs
    /\ req = NoRequest
    /\ handler = NoHandler
    /\ hres = NoResult
    /\ resp = NoResponse
    /\ calls = <<>>
    /\ env = NoOutcome
    /\ serverUp = TRUE
    /\ SanIdle
    /\ ConcIdle
    /\ Constructed

\* What the environment can answer to each tool.
OutcomesOf(tool) ==
    CASE tool \in {"claude_code", "claude_code_status"} -> CliOcs
      [] tool = "claude_code_set_workdir" -> ExistsOcs
      [] tool \in {"send_message_to_channel", "ors_add_note", "ors_archive_note"} ->
            HttpOcs(StatusOutcomes)
      [] tool \in {"execute_python", "install_package", "sandbox_read_file",
                   "sandbox_write_file", "sandbox_list_files", "run_shell"} ->
            HttpOcs(SandboxOutcomes)
      [] tool \in {"save_to_local", "read_local_file", "delete_local_file"} -> IoOcs
      [] tool \in {"download_from_sandbox", "upload_to_sandbox"} -> HttpIoOcs(SandboxOutcomes)
      [] tool \in {"google_calendar_list_events", "google_sheets_read", "google_drive_list",
                   "google_drive_download"} -> GoogleOcs(TextOutcomes)
      [] tool \in {"google_calendar_create_event", "google_sheets_write"} ->
            GoogleOcs(StatusOutcomes)
      [] tool = "ors_list_notes" -> HttpOcs(TextOutcomes)
      [] OTHER -> {NoOutcome}

\* The inputs of every tool but list_local_files, whose outcomes depend on
\* the tree.
SrvIn == [tool \in ToolNames \ {"list_local_files"} |->
            Inputs(tool, [f \in Fields(tool) |-> SrvValues(tool, f)], OutcomesOf(tool))]

Next ==
    \/ \E in \in SrvIn["claude_code"] : tool_claude_code(in[1], in[2])
    \/ \E in \in SrvIn["claude_code_get_workdir"] :
          tool_claude_code_get_workdir(in[1], in[2])
    \/ \E in \in SrvIn["claude_code_set_workdir"] :
          tool_claude_code_set_workdir(in[1], in[2])
    \/ \E in \in SrvIn["claude_code_status"] :
          tool_claude_code_status(in[1], in[2])
    \/ \E in \in SrvIn["send_message_to_channel"] :
          tool_send_message_to_channel(in[1], in[2])
    \/ \E in \in SrvIn["execute_python"] :
          tool_execute_python(in[1], in[2])
    \/ \E in \in SrvIn["install_package"] :
          tool_install_package(in[1], in[2])
    \/ \E in \in SrvIn["sandbox_read_file"] :
          tool_sandbox_read_file(in[1], in[2])
    \/ \E in \in SrvIn["sandbox_write_file"] :
          tool_sandbox_write_file(in[1], in[2])
    \/ \E in \in SrvIn["sandbox_list_files"] :
          tool_sandbox_list_files(in[1], in[2])
    \/ \E in \in SrvIn["run_shell"] :
          tool_run_shell(in[1], in[2])
    \/ \E in \in SrvIn["save_to_local"] : tool_save_to_local(in[1], in[2])
    \/ \E in \in ListInputs([f \in Fields("list_local_files") |->
                                 SrvValues("list_local_files", f)]) :
          tool_list_local_files(in[1], in[2])
    \/ \E in \in SrvIn["read_local_file"] : tool_read_local_file(in[1], in[2])
    \/ \E in \in SrvIn["delete_local_file"] :
          tool_delete_local_file(in[1], in[2])
    \/ \E in \in SrvIn["download_from_sandbox"] :
          tool_download_from_sandbox(in[1], in[2])
    \/ \E in \in SrvIn["upload_to_sandbox"] :
          tool_upload_to_sandbox(in[1], in[2])
    \/ \E in \in SrvIn["google_calendar_list_events"] :
          tool_google_calendar_list_events(in[1], in[2])
    \/ \E in \in SrvIn["google_calendar_create_event"] :
          tool_google_calendar_create_event(in[1], in[2])
    \/ \E in \in SrvIn["google_sheets_read"] :
          tool_google_sheets_read(in[1], in[2])
    \/ \E in \in SrvIn["google_sheets_write"] :
          tool_google_sheets_write(in[1], in[2])
    \/ \E in \in SrvIn["google_drive_list"] :
          tool_google_drive_list(in[1], in[2])
    \/ \E in \in SrvIn["google_drive_download"] :
          tool_google_drive_download(in[1], in[2])
    \/ \E in \in SrvIn["ors_list_notes"] :
          tool_ors_list_notes(in[1], in[2])
    \/ \E in \in SrvIn["ors_add_note"] :
          tool_ors_add_note(in[1], in[2])
    \/ \E in \in SrvIn["ors_archive_note"] :
          tool_ors_archive_note(in[1], in[2])
    \/ \E name \in UnknownNames, pl \in {EmptyPayload, [task |-> <<"v">>]} :
          UnknownOperation(name, pl)
    \/ list_tools
    \/ Respond

Spec == Init /\ [][Next]_vars

(***************************************************************************)
(* Specification of the decode paths: the requests of Spec, and beside     *)
(* them direct calls of the BackupTools methods, which no request reaches. *)
(* A direct call leaves the method's Result in hres and its call in calls. *)
(***************************************************************************)
BackupCall(name, r, o) ==
    /\ serverUp
    /\ req = NoRequest
    /\ handler = NoHandler
    /\ handler' = name
    /\ hres' = [arm |-> r.arm, text |-> r.text]
    /\ calls' = r.calls
    /\ env' = [NoOutcome EXCEPT !.http = <<o>>]
    /\ UNCHANGED <<workdir, fs, cfg, req, resp, serverUp, registry, listed, clients,
                   awaiting, sanVars, concVars>>

call_backup_now(destination, databases, o) ==
    BackupCall("backup_now", backup_now(cfg, destination, databases, o, workdir, fs), o)

call_list_backups(destination, database, limit, o) ==
    BackupCall("list_backups",
               list_backups(cfg, destination, database, limit, o, workdir, fs), o)

call_get_status(o) == BackupCall("get_status", get_status(cfg, o, workdir, fs), o)

call_set_schedule(enabled, cron, retention_days, o) ==
    BackupCall("set_schedule",
               set_schedule(cfg, enabled, cron, retention_days, o, workdir, fs), o)

call_list_destinations(o) ==
    BackupCall("list_destinations", list_destinations(cfg, o, workdir, fs), o)

\* The caller of a direct call drops the Result.
BackupReturn ==
    /\ serverUp
    /\ req = NoRequest
    /\ handler # NoHandler
    /\ handler' = NoHandler
    /\ hres' = NoResult
    /\ calls' = <<>>
    /\ env' = NoOutcome
    /\ UNCHANGED <<workdir, fs, cfg, req, resp, serverUp, registry, listed, clients,
                   awaiting, sanVars, concVars>>

DecodeNext ==
    \/ \E destination \in {None, <<"s3">>},
          databases \in {None, << <<"clara">>, <<"mem0">> >>},
          o \in BackupOutcomes :
          call_backup_now(destination, databases, o)
    \/ \E destination \in {None, <<"s3">>}, database \in {None, <<"clara">>},
          limit \in {None, <<"5">>}, o \in BackupOutcomes :
          call_list_backups(destination, database, limit, o)
    \/ \E o \in BackupOutcomes : call_get_status(o)
    \/ \E enabled \in BOOLEAN, cron \in {None, <<"0 3 * * *">>},
          retention_days \in {None, <<"7">>}, o \in BackupOutcomes :
          call_set_schedule(enabled, cron, retention_days, o)
    \/ \E o \in BackupOutcomes : call_list_destinations(o)
    \/ BackupReturn
    \/ Next

SpecDecode == Init /\ [][DecodeNext]_vars

(***************************************************************************)
(* Specification of a request in time.  The tool method is entered         *)
(* (Receive), awaits what it awaits, and returns (Proceed, Answer); the    *)
(* envelope is then written (Respond).  env holds what the collaborators   *)
(* answer if they answer.  A method that awaits no collaborator returns by *)
(* itself and the transport writes every envelope: both are fair.  A       *)
(* method that awaits send(), text(), json() or Command::output() returns  *)
(* when the collaborator answers or closes; Client::new() sets no timeout, *)
(* no request sets one and Command::output() waits for the child to exit,  *)
(* so nothing in the code makes that step happen.                          *)
(***************************************************************************)
Receive(rq, oc) ==
    /\ serverUp
    /\ req = NoRequest
    /\ handler = NoHandler
    /\ ~awaiting
    /\ lookup(rq.name) # NotFound
    /\ Deserialize(lookup(rq.name), rq.payload).arm = "Ok"
    /\ req' = rq
    /\ env' = oc
    /\ handler' = lookup(rq.name)
    /\ awaiting' = TRUE
    /\ UNCHANGED <<workdir, fs, cfg, hres, resp, calls, serverUp, registry, listed,
                   clients, sanVars, concVars>>

\* What the entered method returns once everything it awaits is there.
Pending ==
    CallTool(handler, Deserialize(handler, req.payload).params, env, cfg, workdir, fs)

\* The method makes no outbound call and returns.
Proceed ==
    /\ awaiting
    /\ Pending.calls = <<>>
    /\ awaiting' = FALSE
    /\ Returned(handler, Deserialize(handler, req.payload).params, env)
    /\ UNCHANGED <<req, env, cfg, registry, listed, sanVars, concVars>>

\* The collaborators of the method answer (or refuse) and the method returns.
Answer ==
    /\ awaiting
    /\ Pending.calls # <<>>
    /\ awaiting' = FALSE
    /\ Returned(handler, Deserialize(handler, req.payload).params, env)
    /\ UNCHANGED <<req, env, cfg, registry, listed, sanVars, concVars>>

LiveNext ==
    \/ \E tool \in DOMAIN SrvIn : \E in \in SrvIn[tool] :
          Receive([name |-> tool, payload |-> in[1]], in[2])
    \/ Proceed
    \/ Answer
    \/ Respond

SpecLive == Init /\ [][LiveNext]_vars /\ WF_vars(Proceed) /\ WF_vars(Respond)

(***************************************************************************)
(* Specification of sanitize_filename as a pure function: one call on an   *)
(* arbitrary input.                                                        *)
(***************************************************************************)
SanInit ==
    /\ sanIn \in StringsUpTo(MaxLen)
    /\ sanOut = <<>>
    /\ sanDone = FALSE
    /\ workdir = None
    /\ fs = (Root :> Dir)
    /\ cfg \in {c \in Configs : c.sandbox_api_url = None}
    /\ req = NoRequest
    /\ handler = NoHandler
    /\ hres = NoResult
    /\ resp = NoResponse
    /\ calls = <<>>
    /\ env = NoOutcome
    /\ serverUp = TRUE
    /\ ConcIdle
    /\ Constructed

Sanitize ==
    /\ ~sanDone
    /\ sanOut' = sanitize_filename(sanIn)
    /\ sanDone' = TRUE
    /\ UNCHANGED <<sanIn, srvVars, concVars>>

SanNext == Sanitize

SpecSan == SanInit /\ [][SanNext]_vars

(***************************************************************************)
(* The file tools, on requests whose user identifiers and filenames hold   *)
(* separators and dots.                                                    *)
(***************************************************************************)
FileUsers == {<<"a", "/", "b">>, <<"a", "_", "b">>, <<"b">>, <<".", ".">>}
FileNamesIn == {<<"f">>, <<".", ".">>}
FileContents == {<<"x">>, <<"y">>}

FilesValues(tool, f) ==
    CASE f = "user_id" -> FileUsers
      [] f \in {"filename", "local_filename"} -> FileNamesIn
      [] f = "content" -> FileContents
      [] f = "sandbox_path" -> {<<"d", "/", "f">>}
      [] OTHER -> {<<"v">>}

FilesIn == [tool \in FileTools \ {"list_local_files"} |->
              Inputs(tool, [f \in Fields(tool) |-> FilesValues(tool, f)], OutcomesOf(tool))]

FilesInit ==
    /\ Init
    /\ workdir = None
    /\ cfg.sandbox_api_key # None

FilesNext ==
    \/ \E in \in FilesIn["save_to_local"] : tool_save_to_local(in[1], in[2])
    \/ \E in \in ListInputs([f \in Fields("list_local_files") |->
                                 FilesValues("list_local_files", f)]) :
          tool_list_local_files(in[1], in[2])
    \/ \E in \in FilesIn["read_local_file"] : tool_read_local_file(in[1], in[2])
    \/ \E in \in FilesIn["delete_local_file"] : tool_delete_local_file(in[1], in[2])
    \/ \E in \in FilesIn["download_from_sandbox"] :
          tool_download_from_sandbox(in[1], in[2])
    \/ \E in \in FilesIn["upload_to_sandbox"] : tool_upload_to_sandbox(in[1], in[2])
    \/ Respond

SpecFiles == FilesInit /\ [][FilesNext]_vars

\* What list_local_files and read_local_file can show a user on a tree: the
\* lines of the listing and, per filename, the result of the read.
Visible(tree, user_id) ==
    [listed |-> {ListLine(user_dir(tree, user_id, TRUE).fs, q) :
                    q \in ListedFiles(tree, user_id, TRUE)},
     read |-> [n \in FileNamesIn |->
                 LET r == read([filename |-> n, user_id |-> user_id], TRUE, None, tree)
                 IN  <<r.arm, r.text>>]]

(***************************************************************************)
(* Concurrent requests on ClaudeCodeTools.  Each request runs on its own    *)
(* task; the four methods meet at the RwLock around the stored working     *)
(* directory.  The guarded value takes two memory accesses to write and    *)
(* two to clone, so that an access the lock did not order would show.  The *)
(* lock is never poisoned: no holder of a guard can panic.                 *)
(***************************************************************************)
\* Number of concurrent requests.
NumTasks == 3
Tasks == 1..NumTasks

Unread == <<"#unread">>
IdleTask == [op |-> "idle", pc |-> "idle", path |-> None, seen |-> <<Unread, Unread>>]

\* RwLock::read blocks while a writer holds the lock.
CanRead_unguarded(l) == TRUE

CanRead(l) == l.writer = 0

\* RwLock::write blocks while a writer or any reader holds the lock.
CanWriteLock(l) == l.writer = 0 /\ l.readers = {}

ConcUnchanged == UNCHANGED <<srvVars, sanVars, par, start>>

\* set_workdir up to its write(): Path::exists, and the early return.
conc_set_workdir(t, path, exists) ==
    /\ task[t].pc = "idle"
    /\ task' = [task EXCEPT ![t] = [@ EXCEPT !.op = "set_workdir", !.path = path,
                                              !.pc = IF exists THEN "write" ELSE "done"]]
    /\ stored' = IF exists THEN stored \cup {path} ELSE stored
    /\ UNCHANGED <<cell, lock>>
    /\ ConcUnchanged

\* get_workdir, up to its read().
conc_get_workdir(t) ==
    /\ task[t].pc = "idle"
    /\ task' = [task EXCEPT ![t] = [@ EXCEPT !.op = "get_workdir", !.pc = "read"]]
    /\ UNCHANGED <<cell, lock, stored>>
    /\ ConcUnchanged

\* status up to its get_workdir().await: the version subprocess.
conc_status(t, o) ==
    /\ task[t].pc = "idle"
    /\ task' = [task EXCEPT ![t] = [@ EXCEPT !.op = "status",
                                              !.pc = IF o.kind = "exit" /\ o.success
                                                     THEN "read" ELSE "done"]]
    /\ UNCHANGED <<cell, lock, stored>>
    /\ ConcUnchanged

\* execute up to its read(), which it skips when the request names a
\* directory.
conc_execute(t, dir) ==
    /\ task[t].pc = "idle"
    /\ task' = [task EXCEPT ![t] = [@ EXCEPT !.op = "execute", !.path = dir,
                                              !.pc = IF dir = None THEN "read" ELSE "output"]]
    /\ UNCHANGED <<cell, lock, stored>>
    /\ ConcUnchanged

\* self.workdir.write()
WriteLock(t) ==
    /\ task[t].pc = "write"
    /\ CanWriteLock(lock)
    /\ lock' = [lock EXCEPT !.writer = t]
    /\ task' = [task EXCEPT ![t].pc = "store1"]
    /\ UNCHANGED <<cell, stored>>
    /\ ConcUnchanged

\* *dir = Some(path.clone()), first and second word.
StoreFirst(t) ==
    /\ task[t].pc = "store1"
    /\ cell' = [cell EXCEPT ![1] = task[t].path]
    /\ task' = [task EXCEPT ![t].pc = "store2"]
    /\ UNCHANGED <<lock, stored>>
    /\ ConcUnchanged

StoreSecond(t) ==
    /\ task[t].pc = "store2"
    /\ cell' = [cell EXCEPT ![2] = task[t].path]
    /\ task' = [task EXCEPT ![t].pc = "unlock_write"]
    /\ UNCHANGED <<lock, stored>>
    /\ ConcUnchanged

\* The write guard is dropped when set_workdir returns.
DropWrite(t) ==
    /\ task[t].pc = "unlock_write"
    /\ lock' = [lock EXCEPT !.writer = 0]
    /\ task' = [task EXCEPT ![t].pc = "done"]
    /\ UNCHANGED <<cell, stored>>
    /\ ConcUnchanged

\* self.workdir.read()
ReadLock(t) ==
    /\ task[t].pc = "read"
    /\ CanRead(lock)
    /\ lock' = [lock EXCEPT !.readers = @ \cup {t}]
    /\ task' = [task EXCEPT ![t].pc = "load1"]
    /\ UNCHANGED <<cell, stored>>
    /\ ConcUnchanged

\* dir.clone(), first and second word.
LoadFirst(t) ==
    /\ task[t].pc = "load1"
    /\ task' = [task EXCEPT ![t].seen[1] = cell[1], ![t].pc = "load2"]
    /\ UNCHANGED <<cell, lock, stored>>
    /\ ConcUnchanged

LoadSecond(t) ==
    /\ task[t].pc = "load2"
    /\ task' = [task EXCEPT ![t].seen[2] = cell[2], ![t].pc = "unlock_read"]
    /\ UNCHANGED <<cell, lock, stored>>
    /\ ConcUnchanged

\* The read guard is dropped: at the end of get_workdir, or of the statement
\* in execute.
DropRead(t) ==
    /\ task[t].pc = "unlock_read"
    /\ lock' = [lock EXCEPT !.readers = @ \ {t}]
    /\ task' = [task EXCEPT ![t].pc = IF task[t].op = "execute" THEN "output" ELSE "done"]
    /\ UNCHANGED <<cell, stored>>
    /\ ConcUnchanged

\* cmd.output() of execute: the subprocess runs and the request returns.
Output(t) ==
    /\ task[t].pc = "output"
    /\ task' = [task EXCEPT ![t].pc = "done"]
    /\ UNCHANGED <<cell, lock, stored>>
    /\ ConcUnchanged

ConcInit ==
    /\ \E w \in {None, <<"/w0">>} : cell = <<w, w>> /\ stored = {w}
    /\ lock = Unlocked
    /\ task = [t \in Tasks |-> IdleTask]
    /\ workdir = None
    /\ fs = (Root :> Dir)
    /\ cfg \in {c \in Configs : c.sandbox_api_url = None}
    /\ req = NoRequest
    /\ handler = NoHandler
    /\ hres = NoResult
    /\ resp = NoResponse
    /\ calls = <<>>
    /\ env = NoOutcome
    /\ serverUp = TRUE
    /\ SanIdle
    /\ Constructed
    /\ ParIdle

ConcNext ==
    \E t \in Tasks :
        \/ \E path \in Paths, exists \in BOOLEAN : conc_set_workdir(t, path, exists)
        \/ conc_get_workdir(t)
        \/ \E o \in CliOutcomes : conc_status(t, o)
        \/ \E dir \in {None, <<"/w1">>} : conc_execute(t, dir)
        \/ WriteLock(t)
        \/ StoreFirst(t)
        \/ StoreSecond(t)
        \/ DropWrite(t)
        \/ ReadLock(t)
        \/ LoadFirst(t)
        \/ LoadSecond(t)
        \/ DropRead(t)
        \/ Output(t)

SpecConc == ConcInit /\ [][ConcNext]_vars

(***************************************************************************)
(* Specification of concurrent file and workdir requests.  The runtime of  *)
(* #[tokio::main] runs the tool methods of two requests on its worker      *)
(* threads at once; LocalFilesTools takes no lock, so the calls into       *)
(* std::fs of the two methods interleave.  One step is one call into       *)
(* std::fs, fs::write being File::create (the file is created or emptied)  *)
(* followed by write_all at offset 0; a store or a load of the working     *)
(* directory under its RwLock is one step.  The operating system lets      *)
(* every call through.                                                     *)
(***************************************************************************)
NumPar == 2
ParTasks == 1..NumPar

ParUsers == {<<"a", "/", "b">>, <<"a", "_", "b">>, <<"b">>}
ParContents == {<<"x">>, <<"y", "y">>}

\* The requests: op, and the parameters the op reads.
ParOp(op, user_id, content, exists) ==
    [op |-> op, user_id |-> user_id, filename |-> <<"f">>, content |-> content,
     path |-> <<"/w1">>, exists |-> exists]

ParOps ==
    {ParOp("save", u, c, TRUE) : u \in ParUsers, c \in ParContents}
    \cup {ParOp(op, u, <<>>, TRUE) : op \in {"read", "delete", "list"}, u \in ParUsers}
    \cup {ParOp("set_workdir", <<>>, <<>>, e) : e \in BOOLEAN}
    \cup {ParOp("get_workdir", <<>>, <<>>, TRUE)}

FileOps == {"save", "read", "delete", "list"}

NoOp == ParOp("#none", <<>>, <<>>, TRUE)

IdlePar == [op |-> NoOp, pc |-> "idle", res |-> NoResult, open |-> FALSE, order |-> <<>>]

\* Trees earlier requests can have left under base_dir.
ParTrees ==
    { (Root :> Dir),
      (Root :> Dir) @@ (<<<<"a", "_", "b">>>> :> Dir)
        @@ (<<<<"a", "_", "b">>, <<"f">>>> :> File(<<"o", "o", "o">>))
        @@ (<<<<"b">>>> :> Dir)
        @@ (<<<<"b">>, <<"f">>>> :> File(<<"p">>)) }

\* self.user_dir(&user_id).join(&safe_name)
ParPath(o) ==
    join(join(Root, sanitize_filename(o.user_id)), sanitize_filename(o.filename))

\* write_all at offset 0 of a file holding old.
Overwrite(old, content) ==
    content \o SubSeq(old, Len(content) + 1, Len(old))

Ret(t, arm, text) == [par EXCEPT ![t].res = [arm |-> arm, text |-> text], ![t].pc = "done"]

ParUnchanged ==
    UNCHANGED <<cfg, req, handler, hres, resp, calls, env, serverUp, registry, listed,
                clients, awaiting, sanVars, cell, lock, task, stored, start>>

\* A request arrives and its tool method is entered.
par_request(t, o) ==
    /\ par[t].pc = "idle"
    /\ par' = [par EXCEPT ![t].op = o,
                          ![t].pc = CASE o.op \in FileOps -> "user_dir"
                                      [] o.op = "set_workdir" -> "path_exists"
                                      [] OTHER -> "load"]
    /\ UNCHANGED <<fs, workdir>>
    /\ ParUnchanged

\* user_dir: fs::create_dir_all(&path).ok()
par_user_dir(t) ==
    /\ par[t].pc = "user_dir"
    /\ fs' = user_dir(fs, par[t].op.user_id, TRUE).fs
    /\ par' = [par EXCEPT ![t].pc = CASE par[t].op.op = "save" -> "create"
                                      [] par[t].op.op = "list" -> "walk"
                                      [] OTHER -> "exists"]
    /\ UNCHANGED workdir
    /\ ParUnchanged

\* fs::write, first half: File::create creates the file or empties it.
par_create(t) ==
    /\ par[t].pc = "create"
    /\ LET path == ParPath(par[t].op)
       IN  IF CanWrite(fs, path, TRUE)
           THEN /\ fs' = (path :> File(<<>>)) @@ fs
                /\ par' = [par EXCEPT ![t].pc = "write", ![t].open = TRUE]
           ELSE /\ par' = Ret(t, "Err", <<"Failed to save file: ", "os error">>)
                /\ UNCHANGED fs
    /\ UNCHANGED workdir
    /\ ParUnchanged

\* fs::write, second half: write_all, then Ok(format!("Saved {} ({} bytes)")).
\* A file removed since File::create is written to without being seen.
par_write(t) ==
    /\ par[t].pc = "write"
    /\ LET o == par[t].op
           path == ParPath(o)
       IN  /\ fs' = IF par[t].open
                    THEN [fs EXCEPT ![path] = File(Overwrite(fs[path].content, o.content))]
                    ELSE fs
           /\ par' = [Ret(t, "Ok", <<"Saved ">> \o sanitize_filename(o.filename)
                                     \o <<" (", Display(Len(o.content)), " bytes)">>)
                        EXCEPT ![t].open = FALSE]
    /\ UNCHANGED workdir
    /\ ParUnchanged

\* read and delete: if !path.exists() { return Err("File not found") }
par_exists(t) ==
    /\ par[t].pc = "exists"
    /\ LET o == par[t].op
       IN  IF ParPath(o) \in DOMAIN fs
           THEN par' = [par EXCEPT ![t].pc = IF o.op = "read" THEN "read" ELSE "remove"]
           ELSE par' = Ret(t, "Err", <<"File not found: ">> \o sanitize_filename(o.filename))
    /\ UNCHANGED <<fs, workdir>>
    /\ ParUnchanged

\* fs::read_to_string(&path)
par_read(t) ==
    /\ par[t].pc = "read"
    /\ LET path == ParPath(par[t].op)
       IN  IF IsFile(fs, path)
           THEN par' = Ret(t, "Ok", fs[path].content)
           ELSE par' = Ret(t, "Err", <<"Failed to read file: ", "os error">>)
    /\ UNCHANGED <<fs, workdir>>
    /\ ParUnchanged

\* fs::remove_file(&path): a method that holds the file open keeps writing
\* to the removed file.
par_remove(t) ==
    /\ par[t].pc = "remove"
    /\ LET o == par[t].op
           path == ParPath(o)
       IN  IF IsFile(fs, path)
           THEN /\ fs' = Restrict(fs, DOMAIN fs \ {path})
                /\ par' = [u \in ParTasks |->
                             IF u = t
                             THEN Ret(t, "Ok", <<"Deleted: ">>
                                          \o sanitize_filename(o.filename))[t]
                             ELSE IF par[u].open /\ ParPath(par[u].op) = path
                                  THEN [par[u] EXCEPT !.open = FALSE]
                                  ELSE par[u]]
           ELSE /\ par' = Ret(t, "Err", <<"Failed to delete file: ", "os error">>)
                /\ UNCHANGED fs
    /\ UNCHANGED workdir
    /\ ParUnchanged

\* list: the WalkDir loop, yielding the entries in the given order.
par_walk(t, order) ==
    /\ par[t].pc = "walk"
    /\ order \in Orders(ListedFiles(fs, par[t].op.user_id, TRUE))
    /\ LET r == list([user_id |-> par[t].op.user_id], order, TRUE, workdir, fs)
       IN  par' = [Ret(t, r.arm, r.text) EXCEPT ![t].order = order]
    /\ UNCHANGED <<fs, workdir>>
    /\ ParUnchanged

\* set_workdir: if !std::path::Path::new(&path).exists() { return Err(..) }
par_path_exists(t) ==
    /\ par[t].pc = "path_exists"
    /\ LET o == par[t].op
       IN  IF o.exists
           THEN par' = [par EXCEPT ![t].pc = "store"]
           ELSE par' = Ret(t, "Err", <<"Path does not exist: ">> \o o.path)
    /\ UNCHANGED <<fs, workdir>>
    /\ ParUnchanged

\* set_workdir: *dir = Some(path.clone()) under the write lock.
par_store(t) ==
    /\ par[t].pc = "store"
    /\ workdir' = par[t].op.path
    /\ par' = Ret(t, "Ok", <<"Working directory set to: ">> \o par[t].op.path)
    /\ UNCHANGED fs
    /\ ParUnchanged

\* get_workdir: dir.clone() under the read lock.
par_load(t) ==
    /\ par[t].pc = "load"
    /\ par' = Ret(t, "Ok", get_workdir(workdir, fs).text)
    /\ UNCHANGED <<fs, workdir>>
    /\ ParUnchanged

ParInit ==
    /\ workdir \in {None, <<"/w0">>}
    /\ fs \in ParTrees
    /\ start = [fs |-> fs, workdir |-> workdir]
    /\ par = [t \in ParTasks |-> IdlePar]
    /\ cfg \in {c \in Configs : c.sandbox_api_url = None}
    /\ req = NoRequest
    /\ handler = NoHandler
    /\ hres = NoResult
    /\ resp = NoResponse
    /\ calls = <<>>
    /\ env = NoOutcome
    /\ serverUp = TRUE
    /\ SanIdle
    /\ Constructed
    /\ cell = <<None, None>>
    /\ lock = Unlocked
    /\ task = <<>>
    /\ stored = {}

ParNext ==
    \E t \in ParTasks :
        \/ \E o \in ParOps : par_request(t, o)
        \/ par_user_dir(t)
        \/ par_create(t)
        \/ par_write(t)
        \/ par_exists(t)
        \/ par_read(t)
        \/ par_remove(t)
        \/ \E order \in Orders(ListedFiles(fs, par[t].op.user_id, TRUE)) : par_walk(t, order)
        \/ par_path_exists(t)
        \/ par_store(t)
        \/ par_load(t)

SpecPar == ParInit /\ [][ParNext]_vars

\* The tool method of request o run alone on (wd, tree); a listing yields
\* its entries in the given order when that is an order of what is there.
RunAlone(o, order, wd, tree) ==
    CASE o.op = "save" ->
           save([filename |-> o.filename, content |-> o.content, user_id |-> o.user_id],
                TRUE, wd, tree)
      [] o.op = "read" ->
           read([filename |-> o.filename, user_id |-> o.user_id], TRUE, wd, tree)
      [] o.op = "delete" ->
           delete([filename |-> o.filename, user_id |-> o.user_id], TRUE, wd, tree)
      [] o.op = "list" ->
           LET orders == Orders(ListedFiles(tree, o.user_id, TRUE))
           IN  list([user_id |-> o.user_id],
                    IF order \in orders THEN order ELSE CHOOSE x \in orders : TRUE,
                    TRUE, wd, tree)
      [] o.op = "set_workdir" -> set_workdir([path |-> o.path], o.exists, wd, tree)
      [] OTHER -> get_workdir(wd, tree)

\* The two requests run one after the other, request a first: the Result of
\* each and the state left.
Sequential(a, b) ==
    LET ra == RunAlone(par[a].op, par[a].order, start.workdir, start.fs)
        rb == RunAlone(par[b].op, par[b].order, ra.workdir, ra.fs)
    IN  [res |-> (a :> [arm |-> ra.arm, text |-> ra.text])
                 @@ (b :> [arm |-> rb.arm, text |-> rb.text]),
         fs |-> rb.fs, workdir |-> rb.workdir]

\* What the two concurrent requests returned and left.
Concurrent == [res |-> [t \in ParTasks |-> par[t].res], fs |-> fs, workdir |-> workdir]

ParDone == \A t \in ParTasks : par[t].pc = "done"

(***************************************************************************)
(* Properties.                                                             *)
(***************************************************************************)

\* C1: dispatch is total.  Whatever the request (known or unknown name,
\* accepted or rejected payload) and whatever the collaborator answered, the
\* request has a response envelope, success or failure with one text block,
\* and the server is still serving.
C1_DispatchTotal ==
    /\ serverUp
    /\ req # NoRequest =>
          /\ resp.kind \in {"success", "failure"}
          /\ Len(resp.content) = 1

\* A sandbox request whose send() failed in transport has its failure
\* envelope, and the server is up.
C1_TransportFailureAnswered ==
    /\ handler = "execute_python"
    /\ calls # <<>>
    /\ env.http[1].kind = "transport"
    /\ resp.kind = "failure"
    /\ serverUp

\* C2: a request for a name that is not in the registry gets a failure
\* envelope with an unknown-operation message, no handler runs (no result, no
\* outbound call, stored state untouched), and the server keeps serving.
C2_UnknownOperationFails ==
    [][(req = NoRequest /\ req' # NoRequest /\ req'.name \notin ToolNames) =>
          /\ resp'.kind = "failure"
          /\ ContainsSeq(resp'.content[1], <<"unknown operation: ", req'.name>>)
          /\ handler' = NoHandler
          /\ hres' = NoResult
          /\ calls' = <<>>
          /\ workdir' = workdir
          /\ fs' = fs
          /\ serverUp']_vars

C2_DoesNotExistAnswered ==
    /\ req.name = "does_not_exist"
    /\ resp.kind = "failure"
    /\ handler = NoHandler
    /\ serverUp

\* C3: for a registered operation, a payload that lacks a required field gets
\* a failure envelope describing the validation error and the handler does
\* not run; a well-typed payload with every required field reaches the
\* handler, whichever optional fields it carries.
C3_SchemaValidation ==
    (req # NoRequest /\ req.name \in ToolNames) =>
        LET missing == RequiredFields(req.name) \ DOMAIN req.payload
            wellTyped == \A f \in DOMAIN req.payload : req.payload[f] # WrongType
        IN  /\ missing # {} =>
                  /\ resp.kind = "failure"
                  /\ Contains(resp.content[1], "validation error: ")
                  /\ handler = NoHandler
                  /\ calls = <<>>
            /\ (missing = {} /\ wellTyped) => handler = req.name

\* claude_code without its task is rejected before the handler.
C3_MissingTaskRejected ==
    /\ req.name = "claude_code"
    /\ "task" \notin DOMAIN req.payload
    /\ "workdir" \in DOMAIN req.payload
    /\ resp.kind = "failure"
    /\ handler = NoHandler

\* C4: when a handler ran, the envelope variant is the handler's result arm:
\* Ok(text) gives success with the one block text, Err(msg) gives failure
\* with the one block msg.
C4_EnvelopeIsResultArm ==
    handler # NoHandler =>
        /\ handler = req.name
        /\ hres.arm \in {"Ok", "Err"}
        /\ resp.kind = (IF hres.arm = "Ok" THEN "success" ELSE "failure")
        /\ resp.content = <<hres.text>>

\* A handler returned Err with a message and the envelope is that failure.
C4_ErrArmWrapped ==
    /\ handler = "claude_code_set_workdir"
    /\ hres.arm = "Err"
    /\ hres.text # <<>>
    /\ resp = [kind |-> "failure", content |-> <<hres.text>>]

\* C5: "backup_now" is found in the registry and its invocation makes one
\* outbound POST and returns a success text with "Backup success".
C5_BackupNowRegistered ==
    req.name = "backup_now" =>
        /\ lookup(req.name) # NotFound
        /\ handler = "backup_now"
        /\ Len(calls) = 1
        /\ calls[1].method = "POST"
        /\ resp.kind = "success"

\* C6: claude_code_set_workdir with a path that does not exist gets a failure
\* envelope containing "Path does not exist" and the stored working directory
\* is what it was, so claude_code_get_workdir answers as before.
C6_FailedSetWorkdirKeepsValue ==
    [][(/\ req = NoRequest
        /\ handler' = "claude_code_set_workdir"
        /\ ~env'.exists) =>
          /\ resp'.kind = "failure"
          /\ Contains(resp'.content[1], "Path does not exist: ")
          /\ workdir' = workdir
          /\ get_workdir(workdir', fs').text = get_workdir(workdir, fs).text]_vars

\* A set_workdir failed on a missing path while a directory stored by an
\* earlier call is still the stored one.
C6_FailedAfterStored ==
    /\ handler = "claude_code_set_workdir"
    /\ ~env.exists
    /\ resp.kind = "failure"
    /\ workdir \in Paths
    /\ workdir # req.payload.path

\* C7: under every interleaving of concurrent set_workdir, get_workdir,
\* status and execute requests, a request that has read the stored working
\* directory read a whole value: both words agree, and the value is the
\* initial one or the path of a set_workdir call that passed Path::exists.
C7_ReadsAreWhole ==
    \A t \in Tasks :
        task[t].pc \in {"unlock_read", "output", "done"} /\ task[t].seen[1] # Unread =>
            /\ task[t].seen[1] = task[t].seen[2]
            /\ task[t].seen[1] \in stored

\* A request has read a path that a concurrent set_workdir stored, while
\* another set_workdir is between its two stores.
C7_ReadBesideWriter ==
    \E r \in Tasks, w \in Tasks :
        /\ task[r].pc = "done"
        /\ task[r].seen[1] \in Paths
        /\ task[w].pc = "store2"
        /\ cell[1] # cell[2]

\* C8 as stated: every character of the output of sanitize_filename is an
\* ASCII letter or digit or one of . _ -, and the output has no leading '.'.
C8_AsciiCharset ==
    sanDone =>
        /\ \A i \in 1..Len(sanOut) : sanOut[i] \in AsciiAlnum \cup Punct
        /\ (sanOut = <<>> \/ Head(sanOut) # ".")

\* C8: every character of the output of sanitize_filename is alphanumeric in
\* the sense of char::is_alphanumeric (ASCII or not) or one of . _ -, the
\* output has as many characters as the input less its leading dots or
\* fewer, and it does not start with '.'.
C8_SanitizedCharset ==
    sanDone =>
        /\ \A i \in 1..Len(sanOut) : is_alphanumeric(sanOut[i]) \/ sanOut[i] \in Punct
        /\ Len(sanOut) <= Len(sanIn)
        /\ (sanOut = <<>> \/ Head(sanOut) # ".")

\* An input of dots, a separator and a non-ASCII letter has been sanitized.
C8_DotsSeparatorUnicode ==
    /\ sanDone
    /\ sanIn = <<".", "/", "U+00E9">>
    /\ sanOut = <<"_", "U+00E9">>

\* C9: per-user file isolation.  A save under one user identifier changes
\* nothing of what list_local_files and read_local_file show under any other
\* user identifier.
C9_SaveInvisibleToOtherUsers ==
    [][(/\ req = NoRequest
        /\ handler' = "save_to_local"
        /\ resp'.kind = "success") =>
          \A B \in FileUsers \ {req'.payload.user_id} :
              Visible(fs', B) = Visible(fs, B)]_vars

\* C10: when the remote answered an outbound call with a non-success status,
\* or the sandbox answered success=false, the operation's envelope is the
\* failure variant.
C10_RejectionIsFailure ==
    \A k \in 1..Len(calls) :
        (/\ k <= Len(env.http)
         /\ \/ env.http[k].kind = "reject"
            \/ /\ calls[k].svc = "sandbox"
               /\ env.http[k].kind = "ok"
               /\ ~env.http[k].json.success) =>
            resp.kind = "failure"

\* C11: no operation retries.  When the k-th outbound call of an invocation
\* could not be made (send() failed in transport, or the subprocess could not
\* be spawned), that call is the last call of the invocation, no other call
\* of the invocation is the same call, and the response is a failure whose
\* text is not empty and, for an HTTP call, carries the error of the send.
C11_FailedCallNotRetried ==
    handler # NoHandler =>
        \A k \in DOMAIN calls :
            LET failed == IF calls[k].svc = "claude"
                          THEN env.cli.kind = "spawn_fail"
                          ELSE env.http[k].kind = "transport"
            IN  failed =>
                    /\ k = Len(calls)
                    /\ \A j \in DOMAIN calls : calls[j] = calls[k] => j = k
                    /\ resp.kind = "failure"
                    /\ resp.content[1] # <<>>
                    /\ calls[k].svc # "claude" =>
                           ContainsSeq(resp.content[1], ErrText(env.http[k]))

\* A sandbox call whose send() failed: one call was made and the response is
\* the failure.
C11_SandboxSendFailedOnce ==
    /\ handler = "run_shell"
    /\ Len(calls) = 1
    /\ env.http[1].kind = "transport"
    /\ resp.kind = "failure"

C13_EveryRequestAnswered == (req # NoRequest) ~> (resp # NoResponse)

\* C15: the registry is fixed after startup.  Its names are unique, it is
\* the router ClaraServer::new built whatever requests were served, and every
\* listing is the listing of that router: same names, same order.
C15_RegistryFixed ==
    /\ registry = tool_router
    /\ \A i, j \in DOMAIN registry : registry[i] = registry[j] => i = j
    /\ listed # <<>> => listed = list_all(tool_router)

\* A listing made after a save_to_local request has written a file.
C15_ListedAfterInvoke ==
    /\ listed = list_all(tool_router)
    /\ \E path \in DOMAIN fs : IsFile(fs, path)
    /\ req = NoRequest

\* C16: lookup by name is exact.  Every registered name looks up to itself,
\* every other name (a name differing in case included) to NotFound; a
\* request runs the tool method of exactly the requested name or, for a name
\* that is not registered, none and is answered as an unknown operation.
C16_LookupExact ==
    /\ \A name \in ToolNames : lookup(name) = name
    /\ \A name \in UnknownNames : lookup(name) = NotFound
    /\ req # NoRequest =>
          /\ handler \in {NoHandler, req.name}
          /\ req.name \notin ToolNames =>
                /\ handler = NoHandler
                /\ resp = unknown_operation(req.name)
          /\ handler = NoHandler =>
                \/ resp = unknown_operation(req.name)
                \/ /\ req.name \in ToolNames
                   /\ resp = validation_error(Deserialize(req.name, req.payload).text)

\* A request for Claude_Code, which differs from a registered name in case
\* only, is answered as an unknown operation.
C16_CaseDiffersNotFound ==
    /\ req.name = "Claude_Code"
    /\ handler = NoHandler
    /\ resp = unknown_operation("Claude_Code")

\* C17: the process holds exactly one outbound HTTP client: the one built at
\* startup, shared by every tool group, with none built while a request is
\* handled.
C17_OneSharedClient == Cardinality(clients) = 1

\* The tool methods that call into GoogleTools.
GoogleToolNames ==
    {"google_calendar_list_events", "google_calendar_create_event", "google_sheets_read",
     "google_sheets_write", "google_drive_list", "google_drive_download"}

\* C18 as stated: a tool invocation makes at most one outbound call.
C18_SingleExternalCall == Len(calls) <= 1

\* C18, amended: a tool invocation makes at most one outbound call, except
\* the Google operations, which make the token fetch and after it at most one
\* call to the Google API.
C18_OneCallAfterTokenFetch ==
    handler # NoHandler =>
        IF handler \in GoogleToolNames
        THEN /\ Len(calls) <= 2
             /\ \A k \in DOMAIN calls :
                    calls[k].svc = (IF k = 1 THEN "token_broker" ELSE "google")
        ELSE Len(calls) <= 1

\* google_sheets_write fetched the token and then wrote: two outbound calls.
C18_TokenThenWrite ==
    /\ handler = "google_sheets_write"
    /\ Len(calls) = 2
    /\ resp.kind = "success"

\* C20: a Google operation fetches the token of the request's user_id first.
\* When the fetch fails or is answered with a non-success status, or its
\* body does not decode, the response is a failure and nothing was sent to
\* Google.  A request to Google carries the token the broker returned in
\* this invocation, and no other operation sends anything to Google.
C20_TokenBeforeGoogle ==
    handler # NoHandler =>
        IF handler \in GoogleToolNames
        THEN /\ calls # <<>>
             /\ calls[1] = token_call(cfg, req.payload.user_id)
             /\ env.http[1].kind # "ok" => (resp.kind = "failure" /\ Len(calls) = 1)
             /\ \A k \in DOMAIN calls : k > 1 =>
                    /\ env.http[1].kind = "ok"
                    /\ calls[k].svc = "google"
                    /\ calls[k].auth = <<"Bearer ">> \o env.http[1].json.access_token
        ELSE \A k \in DOMAIN calls : calls[k].svc \notin {"google", "token_broker"}

\* google_drive_list sent its request with the token tok2 the broker returned.
C20_DriveListWithFetchedToken ==
    /\ handler = "google_drive_list"
    /\ env.http[1] = TokenOk(<<"tok2">>)
    /\ Len(calls) = 2
    /\ calls[2].auth = <<"Bearer ", "tok2">>

\* Two requests on disjoint resources as the specification counts them: the files
\* of two different users, or a file request and a workdir request.
DisjointAsStated(a, b) ==
    \/ a.op \in FileOps /\ b.op \in FileOps /\ a.user_id # b.user_id
    \/ a.op \in FileOps /\ b.op \in {"set_workdir", "get_workdir"}
    \/ b.op \in FileOps /\ a.op \in {"set_workdir", "get_workdir"}

\* Two requests whose paths under base_dir are disjoint: two user
\* directories of different names, or a file request and a workdir request.
DisjointPaths(a, b) ==
    /\ DisjointAsStated(a, b)
    /\ (a.op \in FileOps /\ b.op \in FileOps) =>
           sanitize_filename(a.user_id) # sanitize_filename(b.user_id)

\* C14: two concurrent requests on disjoint resources return, under every
\* interleaving of their steps, the two responses and leave the state that
\* running them one after the other returns and leaves, in either order.
C14_DisjointRequestsCommute ==
    (ParDone /\ DisjointAsStated(par[1].op, par[2].op)) =>
        /\ Concurrent = Sequential(1, 2)
        /\ Concurrent = Sequential(2, 1)

\* The same for requests whose paths under base_dir are disjoint.
C14_DisjointPathsCommute ==
    (ParDone /\ DisjointPaths(par[1].op, par[2].op)) =>
        /\ Concurrent = Sequential(1, 2)
        /\ Concurrent = Sequential(2, 1)

\* C19: once two concurrent save_to_local requests for the same user and the
\* same sanitized filename have both returned success, the file holds the
\* whole content of one of the two.
C19_ConcurrentSavesLeaveOneContent ==
    (/\ ParDone
     /\ \A t \in ParTasks : par[t].op.op = "save" /\ par[t].res.arm = "Ok"
     /\ par[1].op.user_id = par[2].op.user_id
     /\ sanitize_filename(par[1].op.filename) = sanitize_filename(par[2].op.filename)) =>
        read([filename |-> par[1].op.filename, user_id |-> par[1].op.user_id],
             TRUE, workdir, fs).text \in {par[1].op.content, par[2].op.content}

\* C21: the path save, read and delete work on lies strictly inside the
\* caller's user directory, and the user directory strictly inside base_dir,
\* whatever the filename and the user_id.
C21_PathsStrictlyInside ==
    handler \in {"save_to_local", "read_local_file", "delete_local_file"} =>
        LET ud == join(Root, sanitize_filename(req.payload.user_id))
            path == join(ud, sanitize_filename(req.payload.filename))
        IN  /\ ud # Root
            /\ Parent(ud) = Root
            /\ path # ud
            /\ Parent(path) = ud

\* C22: the stored working directory is the path of the latest
\* claude_code_set_workdir that returned success, or the startup value when
\* there was none: a successful set_workdir stores its path and no other step
\* (a failed set_workdir, a claude_code run, a status call, any other request)
\* changes the stored value; claude_code_get_workdir answers the stored value,
\* or "Not set" when there is none.
C22_GetWorkdirReturnsLatestSet ==
    [][/\ IF handler' = "claude_code_set_workdir" /\ resp'.kind = "success"
                /\ req = NoRequest
          THEN workdir' = req'.payload.path
          ELSE workdir' = workdir
       /\ handler' = "claude_code_get_workdir" =>
             /\ resp'.kind = "success"
             /\ resp'.content[1] = IF workdir = None THEN <<"Not set">> ELSE workdir]_vars

\* get_workdir answers a path that was not configured at startup: the path
\* of an earlier successful set_workdir.
C22_GetAfterSet ==
    /\ handler = "claude_code_get_workdir"
    /\ resp.kind = "success"
    /\ resp.content[1] \notin {<<"Not set">>, <<"/w0">>}

\* C23: claude_code runs the CLI in the workdir of the request when the
\* request gives one, otherwise in the stored working directory, otherwise
\* with no directory set; the run leaves the stored working directory as it
\* was, so a run without workdir after it uses the stored one.
C23_RequestWorkdirNotStored ==
    [][(req = NoRequest /\ handler' = "claude_code") =>
          LET p == Deserialize("claude_code", req'.payload).params
          IN  /\ Len(calls') = 1
              /\ calls'[1].dir = (IF p.workdir # None THEN p.workdir ELSE workdir)
              /\ workdir' = workdir]_vars

\* A run in the workdir of its request while another directory is stored.
C23_RequestWorkdirBesideStored ==
    /\ handler = "claude_code"
    /\ calls[1].dir = <<"/w1">>
    /\ workdir = <<"/w2">>

\* What read_local_file returns to user_id for filename on a tree.
ReadBack(tree, user_id, filename) ==
    LET r == read([filename |-> filename, user_id |-> user_id], TRUE, None, tree)
    IN  [arm |-> r.arm, text |-> r.text]

\* The request of task b is a save or a delete of the user of request a for
\* a filename of the same sanitized form.
SameUserWrite(a, b) ==
    /\ par[b].op.op \in {"save", "delete"}
    /\ par[b].op.user_id = par[a].op.user_id
    /\ sanitize_filename(par[b].op.filename) = sanitize_filename(par[a].op.filename)

\* The request of task b is a save or a delete that reaches the path of
\* request a, whoever its caller is.
SamePathWrite(a, b) ==
    /\ par[b].op.op \in {"save", "delete"}
    /\ ParPath(par[b].op) = ParPath(par[a].op)

\* C24: save/read round trip.  After a save_to_local that returned success a
\* read of the same filename by the same user returns exactly the content,
\* and still does after a following request that is not a save or delete of
\* the same user for a filename of the same sanitized form.
C24_RoundTripUntilSameUserWrites ==
    \A a, b \in ParTasks :
        (a # b /\ par[a].op.op = "save" /\ par[b].op # NoOp) =>
            LET o == par[a].op
                ra == RunAlone(o, par[a].order, start.workdir, start.fs)
                sq == Sequential(a, b)
                saved == [arm |-> "Ok", text |-> o.content]
            IN  ra.arm = "Ok" =>
                    /\ ReadBack(ra.fs, o.user_id, o.filename) = saved
                    /\ ~SameUserWrite(a, b) =>
                           ReadBack(sq.fs, o.user_id, o.filename) = saved

\* The round trip, the content staying until a save or delete reaches the
\* same path under base_dir.
C24_RoundTripUntilSamePathWritten ==
    \A a, b \in ParTasks :
        (a # b /\ par[a].op.op = "save" /\ par[b].op # NoOp) =>
            LET o == par[a].op
                ra == RunAlone(o, par[a].order, start.workdir, start.fs)
                sq == Sequential(a, b)
                saved == [arm |-> "Ok", text |-> o.content]
            IN  ra.arm = "Ok" =>
                    /\ ReadBack(ra.fs, o.user_id, o.filename) = saved
                    /\ ~SamePathWrite(a, b) =>
                           ReadBack(sq.fs, o.user_id, o.filename) = saved

\* A save followed by a request of another user.
C24_SaveThenOtherUser ==
    /\ par[1].op.op = "save" /\ par[2].op.op \in {"save", "delete"}
    /\ par[2].op.user_id # par[1].op.user_id
    /\ Sequential(1, 2).res[1].arm = "Ok"
    /\ Sequential(1, 2).res[2].arm = "Ok"

\* The stored files of a tree and their contents.
StoredFiles(tree) ==
    [q \in {q \in DOMAIN tree : IsFile(tree, q)} |-> tree[q].content]

C26_SecondStepOnlyAfterFirst ==
    [][/\ (req = NoRequest /\ handler' = "download_from_sandbox") =>
             LET p == Deserialize("download_from_sandbox", req'.payload).params
                 got == read_file(cfg, p.sandbox_path, env'.http[1], workdir, fs)
             IN  got.arm = "Err" =>
                     /\ fs' = fs
                     /\ resp' = [kind |-> "failure", content |-> <<got.text>>]
       /\ (req = NoRequest /\ handler' = "upload_to_sandbox") =>
             LET p == Deserialize("upload_to_sandbox", req'.payload).params
                 path == ParPath([user_id |-> p.user_id, filename |-> p.local_filename])
             IN  ~IsFile(fs, path) =>
                     /\ calls' = <<>>
                     /\ StoredFiles(fs') = StoredFiles(fs)
                     /\ resp'.kind = "failure"
                     /\ resp'.content[1][1] \in {"File not found: ", "Failed to read file: "}
                     /\ resp'.content[1]
                          = read([filename |-> p.local_filename, user_id |-> p.user_id],
                                 env'.io, workdir, fs).text]_vars

\* A download whose sandbox read was sent and failed, beside stored files.
C26_DownloadReadFailed ==
    /\ handler = "download_from_sandbox" /\ resp.kind = "failure"
    /\ Len(calls) = 1
    /\ StoredFiles(fs) # <<>>

\* The tool methods that run one SandboxTools method.
SandboxToolNames ==
    {"execute_python", "install_package", "sandbox_read_file", "sandbox_write_file",
     "sandbox_list_files", "run_shell"}

C28_InvalidJsonSendsNoWrite ==
    (handler = "google_sheets_write" /\ req.payload.values \notin JsonTexts) =>
        /\ resp.kind = "failure"
        /\ \A i \in DOMAIN calls : calls[i].svc # "google"
        /\ resp.content[1][1] = "Invalid JSON values: " <=> env.http[1].kind = "ok"
        /\ env.http[1].kind # "ok" =>
              resp.content[1] = get_token(cfg, req.payload.user_id, env.http[1]).text

\* C28 as stated: the failure always contains "Invalid JSON values".
C28_InvalidJsonAlwaysReported ==
    (handler = "google_sheets_write" /\ req.payload.values \notin JsonTexts) =>
        /\ resp.kind = "failure"
        /\ \A i \in DOMAIN calls : calls[i].svc # "google"
        /\ resp.content[1][1] = "Invalid JSON values: "

\* Values that are not JSON, rejected after the token was fetched.
C28_InvalidJsonAfterToken ==
    /\ handler = "google_sheets_write" /\ req.payload.values = <<"not json">>
    /\ resp.content[1][1] = "Invalid JSON values: "
    /\ Len(calls) = 1

\* C29: list_local_files and read_local_file are read-only.  Whatever the
\* user and the filename, the stored files and the content of each are the
\* same after the request as before; a user who never saved gets a
\* directory, and no file.
C29_ListAndReadChangeNoFile ==
    [][(req = NoRequest /\ handler' \in {"list_local_files", "read_local_file"}) =>
          /\ StoredFiles(fs') = StoredFiles(fs)
          /\ \A q \in DOMAIN fs : q \in DOMAIN fs' /\ fs'[q] = fs[q]
          /\ \A q \in DOMAIN fs' \ DOMAIN fs :
                /\ IsDir(fs', q)
                /\ q = join(Root, sanitize_filename(req'.payload.user_id))]_vars

\* A listing or read served for a user who has no file, beside the files of
\* another user.
C29_ReadByUserWithoutFiles ==
    /\ handler \in {"list_local_files", "read_local_file"}
    /\ req.payload.user_id = <<"b">>
    /\ IsDir(fs, <<<<"b">>>>)
    /\ WalkFiles(fs, <<<<"b">>>>) = {}
    /\ StoredFiles(fs) # <<>>

====
